---- MODULE Spec2Model ----
(***************************************************************************)
(* Model of the chat core of the NLP-to-SQL dashboard: the ChatBot React   *)
(* component (transcript, processing flag, session id), its asynchronous   *)
(* handlers (handleSendMessage, handlePageChange, handleSessionSelect,     *)
(* loadSessionMessages, fetchSessionInfo, handleNewChat,                   *)
(* handleRefreshConnection) and the boundary calls they await.             *)
(*                                                                         *)
(* Every handler is cut at its awaits: one action runs the code up to the  *)
(* first await, one action per outcome of the awaited call runs the rest.  *)
(* A handler keeps the values its closure captured when it was invoked     *)
(* (sessionId, workspaceId, input); functional state updates               *)
(* (setMessages(prev => ...)) act on the state at the time they run.       *)
(***************************************************************************)
EXTENDS Integers, Sequences, FiniteSets, TLC

VARIABLES
    \* the ChatBot state variables hold the state with every update made by a
    \* setState call so far; `rendered` is what React has committed of it
    messages,      \* ChatBot state: the transcript (ChatMessage[])
    isProcessing,  \* ChatBot state: the shared processing flag
    sessionId,     \* ChatBot state: active session id, "" when null
    sessionInfo,   \* ChatBot state: result of the last session-info lookup
    isRefreshing,  \* ChatBot state: refresh-connection indicator
    workspaceId,   \* ChatBot prop of the last committed render: workspace id, "" when absent
    now,           \* the millisecond clock read by Date.now() / new Date()
    tasks,         \* handler invocations suspended at an await, oldest first
    nOps,          \* number of user operations started so far (bounded)
    nCreated,      \* number of sessions the backend has created so far
    autoSessionId, \* ChatBot prop of the last committed render: session to resume, "" when null
    orphans,       \* invocations still suspended whose component was unmounted
    rendered,      \* what the last committed render gave the handlers and controls
    dashboard,     \* Dashboard state: connectedWorkspace, autoSessionId, showWorkspaceManager
    connectingWorkspace,  \* WorkspaceManager state: workspace being connected, "" when null
    connects,      \* handleConnectWorkspace invocations suspended at an await
    auth           \* AuthProvider state (user, loading, error), the stored
                   \* auth_token, and the call its login is suspended at

vars == <<messages, isProcessing, sessionId, sessionInfo, isRefreshing,
          workspaceId, now, tasks, nOps, nCreated, autoSessionId, orphans,
          dashboard, connectingWorkspace, connects, auth, rendered>>

(***************************************************************************)
(* Bounds of the model.                                                    *)
(***************************************************************************)
MaxOps == 3
MaxClock == 1

(***************************************************************************)
(* Values.  Absent strings (null, undefined, '') are all "" since the code *)
(* only ever tests them for truthiness.                                    *)
(***************************************************************************)
NoSession == ""
NoWorkspace == ""
Workspaces == {"w1"}
PersistedSessions == {"s1", "s2"}
Utterances == {"", " ", "q"}
Pages == {1, 2}
RandSuffixes == {"a", "b"}

WelcomeText == "Hello! I can help you query your database using natural language. How can I help you today?"

NoPagination == [present |-> FALSE, table_id |-> "", current_page |-> 0, total_pages |-> 0]

PageInfo(tid, cur, total) ==
    [present |-> TRUE, table_id |-> tid, current_page |-> cur, total_pages |-> total]

NoSqlResult ==
    [present |-> FALSE, sql |-> "", data |-> 0, error |-> "",
     pagination |-> NoPagination, table_id |-> ""]

NoAnalysisResult == [present |-> FALSE, tables |-> <<>>, analysis_type |-> ""]

\* interface TableInfo; results is an opaque tag for the rows shown (0: none)
TableInfo(name, results, tid, pg) ==
    [name |-> name, results |-> results, table_id |-> tid, pagination |-> pg]

\* interface ChatMessage
ChatMessage(id, isUser, text, ts) ==
    [id |-> id, isUser |-> isUser, text |-> text, timestamp |-> ts,
     query_type |-> "", sqlResult |-> NoSqlResult,
     analysisResult |-> NoAnalysisResult]

\* a || b on strings
OrElse(a, b) == IF a # "" THEN a ELSE b

\* String.prototype.startsWith
HasPrefix(s, p) == Len(s) >= Len(p) /\ SubSeq(s, 1, Len(p)) = p

\* mutation: the turn replaces the transcript (setMessages([m]))
AppendTurnReplacing(prev, m) == << m >>

\* setMessages(prev => [...prev, m])
AppendTurn(prev, m) == Append(prev, m)

\* String.prototype.trim, for blanks
RECURSIVE TrimStart(_)
TrimStart(s) ==
    IF Len(s) = 0 THEN s
    ELSE IF SubSeq(s, 1, 1) = " " THEN TrimStart(SubSeq(s, 2, Len(s))) ELSE s

RECURSIVE TrimEnd(_)
TrimEnd(s) ==
    IF Len(s) = 0 THEN s
    ELSE IF SubSeq(s, Len(s), Len(s)) = " " THEN TrimEnd(SubSeq(s, 1, Len(s) - 1)) ELSE s

\* mutation: the input is tested as typed
TrimNothing(s) == s

Trim(s) == TrimEnd(TrimStart(s))

(***************************************************************************)
(* Responses of the boundary calls (the backend is not part of the         *)
(* repository: its answers are inputs, drawn from these sets).             *)
(***************************************************************************)
\* executeQuery: { query_type, text?, sql?, data?, error?, pagination?,
\*                 table_id?, tables?, analysis_type? }
QueryResult(qt, text, sql, data, err, pg, tid, hasTables, tables, at) ==
    [query_type |-> qt, text |-> text, message |-> "", sql |-> sql, data |-> data,
     error |-> err, pagination |-> pg, table_id |-> tid,
     hasTables |-> hasTables, tables |-> tables, analysis_type |-> at]

ResolverResults ==
    { QueryResult("conversational", "Hi there", "", 0, "", NoPagination, "", FALSE, <<>>, ""),
      QueryResult("", "", "", 0, "", NoPagination, "", FALSE, <<>>, ""),
      QueryResult("sql", "Here are the results", "SELECT 1", 11, "",
                  PageInfo("t1", 1, 3), "t1", FALSE, <<>>, ""),
      QueryResult("sql", "Here are the results", "SELECT 1", 11, "",
                  PageInfo("t1", 1, 3), "", FALSE, <<>>, ""),
      QueryResult("sql", "", "SELECT x", 0, "no such column", NoPagination, "", FALSE, <<>>, ""),
      QueryResult("analysis", "Comparison", "", 0, "", NoPagination, "", TRUE,
                  << TableInfo("A", 11, "t2", PageInfo("t2", 1, 2)),
                     TableInfo("B", 21, "t3", PageInfo("t3", 1, 2)) >>, "comparative"),
      QueryResult("analysis", "Why", "", 0, "", NoPagination, "", TRUE,
                  << TableInfo("A", 11, "", NoPagination),
                     TableInfo("B", 21, "", NoPagination) >>, "causal"),
      QueryResult("analysis", "Why", "", 0, "", NoPagination, "", FALSE, <<>>, "causal") }

\* responses whose query_type is none of conversational, sql, analysis
UnclassifiedResults ==
    { QueryResult("chart", "Chart ready", "SELECT 1", 11, "", PageInfo("t1", 1, 3), "t1",
                  TRUE, << TableInfo("A", 11, "t2", PageInfo("t2", 1, 2)) >>, "comparative"),
      [QueryResult("", "", "", 0, "", NoPagination, "", FALSE, <<>>, "")
          EXCEPT !.message = "Done"] }

\* getPaginatedResults(sessionId, tableId, page): { data, pagination }; the
\* backend may keep the cursor id, rotate it, or send no pagination object
PageResults(tid, page) ==
    { [data |-> 100 + page, pagination |-> PageInfo(tid, page, 3)],
      [data |-> 100 + page, pagination |-> PageInfo(tid \o "r", page, 3)],
      [data |-> 100 + page, pagination |-> PageInfo("", page, 3)],
      [data |-> 100 + page, pagination |-> NoPagination] }

\* getSessionMessages: persisted turns, with the query_result stored with them
NoQueryResult ==
    [present |-> FALSE, is_conversational |-> FALSE, is_multi_query |-> FALSE,
     is_why_analysis |-> FALSE, sql |-> "", results |-> 0, error |-> "",
     pagination |-> NoPagination, hasTables |-> FALSE, tables |-> <<>>,
     analysis_type |-> ""]

\* a persisted turn without created_at
NoDate == -1

StoredMessage(id, role, content, createdAt, qr) ==
    [_id |-> id, role |-> role, content |-> content, created_at |-> createdAt,
     query_result |-> qr]

StoredSql ==
    [NoQueryResult EXCEPT !.present = TRUE, !.sql = "SELECT 1", !.results = 11,
                          !.pagination = PageInfo("t1", 1, 3)]

StoredAnalysis ==
    [NoQueryResult EXCEPT !.present = TRUE, !.is_multi_query = TRUE,
                          !.sql = "SELECT 2", !.results = 31,
                          !.hasTables = TRUE,
                          !.tables = << TableInfo("A", 11, "t2", PageInfo("t2", 1, 2)),
                                        TableInfo("B", 21, "t3", PageInfo("t3", 1, 2)) >>,
                          !.analysis_type = "comparative"]

SessionMessages(s) ==
    IF s = "s1"
    THEN << StoredMessage("m1", "user", "show revenue", 0, NoQueryResult),
            StoredMessage("m2", "assistant", "Here are the results", 0, StoredSql),
            StoredMessage("m3", "assistant", "Comparison", 0, StoredAnalysis) >>
    ELSE IF s = "s3"
    THEN << StoredMessage("m4", "user", "top customers", NoDate, NoQueryResult),
            StoredMessage("", "assistant", "Here are the results", 0, StoredSql) >>
    ELSE <<>>

(***************************************************************************)
(* Turns built by the handlers.                                            *)
(***************************************************************************)
\* the welcome turn (initial state, new chat, empty session)
WelcomeMessage(t) == ChatMessage("welcome", FALSE, WelcomeText, t)

\* handleSessionSelect: the loading placeholder
LoadingMessage(t) == ChatMessage("loading", FALSE, "Loading session messages...", t)

\* loadSessionMessages, catch
LoadFailedMessage(t) ==
    ChatMessage("error-loading", FALSE,
                "Failed to load session messages. Starting with a fresh chat.", t)

\* loadSessionMessages: the notice appended after the loaded turns
LoadedNotice(n, t) ==
    ChatMessage("system-" \o ToString(t), FALSE,
                IF n > 0 THEN "Loaded " \o ToString(n) \o " messages from session"
                         ELSE "Session loaded (no previous messages)", t)

\* handleSendMessage: the user turn
UserMessage(input, t) == ChatMessage(ToString(t), TRUE, input, t)

\* createSession: the name sent for a session when the call is made at time
\* t, which the backend returns as sessionData.name
SessionName(t) == "Chat Session " \o ToString(t)

\* handleSendMessage: notice of the auto-created session, built at time t
\* with the name the backend returned
SessionCreatedMessage(name, t) ==
    ChatMessage("system-" \o ToString(t), FALSE, "Created new session: " \o name, t)

\* handleSendMessage: auto-creation failed
CreateFailedMessage(t) ==
    ChatMessage("error-" \o ToString(t), FALSE,
                "Failed to create session. Please try connecting to the workspace again.", t)

\* handleSendMessage, catch: error.message || 'Failed to execute query'
QueryErrorMessage(errmsg, t) ==
    ChatMessage("error-" \o ToString(t), FALSE,
                "Error: " \o OrElse(errmsg, "Failed to execute query"), t)

\* mutation: the error turn does not name the page
PageErrorMessageWithoutPage(page, errmsg, t) ==
    ChatMessage("pagination-error-" \o ToString(t), FALSE,
                "Error loading page: " \o errmsg, t)

\* handlePageChange, catch
PageErrorMessage(page, errmsg, t) ==
    ChatMessage("pagination-error-" \o ToString(t), FALSE,
                "Error loading page " \o ToString(page) \o ": " \o errmsg, t)

\* handleNewChat: notice of the new session, built at time t with the name
\* the backend returned
NewChatMessage(name, t) ==
    ChatMessage("system-" \o ToString(t), FALSE, "Started new chat session: " \o name, t)

\* handleRefreshConnection
RefreshedMessage(t) ==
    ChatMessage("system-" \o ToString(t), FALSE,
                "Database connection refreshed successfully!", t)

RefreshFailedMessage(t) ==
    ChatMessage("error-" \o ToString(t), FALSE,
                "Failed to refresh database connection. Please check your connection settings.", t)

\* fetchSessionInfo: the fallback error object came back
SessionErrorMessage(description, t) ==
    ChatMessage("session-error-" \o ToString(t), FALSE, description, t)

(***************************************************************************)
(* handleSendMessage: classification of the resolver's response.           *)
(***************************************************************************)
\* `table-${Date.now()}-${Math.random()...}`
SynthTableId(t, rnd) == "table-" \o ToString(t) \o "-" \o rnd

\* mutation: the tables are kept as the resolver sent them
TablesWithIdsAsSent(tables, t, rnds) == tables

\* result.tables.map(table => ({...table, table_id: table.table_id || synth, ...}))
TablesWithIds(tables, t, rnds) ==
    [i \in 1..Len(tables) |->
        [tables[i] EXCEPT !.table_id = OrElse(tables[i].table_id, SynthTableId(t, rnds[i]))]]

\* mutation: a response without tables is classified like any other
ResponseNeverThrows(result) == FALSE

\* TRUE when building the bot message throws (result.tables is undefined)
ResponseThrows(result) == result.query_type = "analysis" /\ ~result.hasTables

\* mutation: the sqlResult is built without the response's error
SqlResultOfDroppingError(result) ==
    [present |-> TRUE, sql |-> result.sql, data |-> result.data,
     error |-> "", pagination |-> result.pagination,
     table_id |-> result.table_id]

\* the sqlResult attached in the sql branch
SqlResultOf(result) ==
    [present |-> TRUE, sql |-> result.sql, data |-> result.data,
     error |-> result.error, pagination |-> result.pagination,
     table_id |-> result.table_id]

\* mutation: every response that is not an analysis takes the sql branch
BotMessageSqlByDefault(result, t, rnds) ==
    LET base == [ChatMessage("response-" \o ToString(t), FALSE,
                             OrElse(result.text, OrElse(result.message,
                                                        "Query executed successfully.")), t)
                     EXCEPT !.query_type = result.query_type]
    IN  IF result.query_type = "analysis"
        THEN [base EXCEPT !.analysisResult =
                 [present |-> TRUE,
                  tables |-> TablesWithIds(result.tables, t, rnds),
                  analysis_type |-> result.analysis_type]]
        ELSE IF result.query_type # "conversational"
        THEN [base EXCEPT !.sqlResult = SqlResultOf(result)]
        ELSE base

\* botMessage as built from a response that does not throw
BotMessage(result, t, rnds) ==
    LET base == [ChatMessage("response-" \o ToString(t), FALSE,
                             OrElse(result.text, OrElse(result.message,
                                                        "Query executed successfully.")), t)
                     EXCEPT !.query_type = result.query_type]
    IN  IF result.query_type = "sql"
        THEN [base EXCEPT !.sqlResult = SqlResultOf(result)]
        ELSE IF result.query_type = "analysis"
        THEN [base EXCEPT !.analysisResult =
                 [present |-> TRUE,
                  tables |-> TablesWithIds(result.tables, t, rnds),
                  analysis_type |-> result.analysis_type]]
        ELSE base

\* the turn a settled executeQuery appends
ResponseTurn(result, t, rnds) ==
    IF ResponseThrows(result)
    THEN QueryErrorMessage("Cannot read properties of undefined (reading 'map')", t)
    ELSE BotMessage(result, t, rnds)

(***************************************************************************)
(* handlePageChange: merge of a returned page into the transcript.         *)
(***************************************************************************)
\* result.pagination?.table_id || tableId
CurrentTableId(result, tableId) ==
    IF result.pagination.present THEN OrElse(result.pagination.table_id, tableId)
    ELSE tableId

\* mutation: every table of the turn takes the returned page
UpdateTableAny(table, tableId, result) ==
    [table EXCEPT !.results = result.data,
                  !.pagination = result.pagination,
                  !.table_id = CurrentTableId(result, tableId)]

\* mutation: the returned rows are added to the rows shown
UpdateTableAppending(table, tableId, result) ==
    IF table.table_id = tableId
    THEN [table EXCEPT !.results = table.results + result.data,
                       !.pagination = result.pagination,
                       !.table_id = CurrentTableId(result, tableId)]
    ELSE table

UpdateTable(table, tableId, result) ==
    IF table.table_id = tableId
    THEN [table EXCEPT !.results = result.data,
                       !.pagination = result.pagination,
                       !.table_id = CurrentTableId(result, tableId)]
    ELSE table

\* mutation: the sql branch takes the rows but keeps the old pagination
UpdateMessageKeepsPagination(msg, messageId, tableId, result) ==
    IF msg.id = messageId /\ msg.sqlResult.present
    THEN [msg EXCEPT !.sqlResult.data = result.data,
                     !.sqlResult.table_id = CurrentTableId(result, tableId)]
    ELSE IF msg.id = messageId /\ msg.analysisResult.present
    THEN [msg EXCEPT !.analysisResult.tables =
             [j \in 1..Len(msg.analysisResult.tables) |->
                 UpdateTable(msg.analysisResult.tables[j], tableId, result)]]
    ELSE msg

UpdateMessage(msg, messageId, tableId, result) ==
    IF msg.id = messageId /\ msg.sqlResult.present
    THEN [msg EXCEPT !.sqlResult.data = result.data,
                     !.sqlResult.pagination = result.pagination,
                     !.sqlResult.table_id = CurrentTableId(result, tableId)]
    ELSE IF msg.id = messageId /\ msg.analysisResult.present
    THEN [msg EXCEPT !.analysisResult.tables =
             [j \in 1..Len(msg.analysisResult.tables) |->
                 UpdateTable(msg.analysisResult.tables[j], tableId, result)]]
    ELSE msg

\* prevMessages.map(...)
UpdateTurnResult(msgs, messageId, tableId, result) ==
    [i \in 1..Len(msgs) |-> UpdateMessage(msgs[i], messageId, tableId, result)]

(***************************************************************************)
(* loadSessionMessages: conversion of the persisted turns.                 *)
(***************************************************************************)

QueryTypeOf(qr) ==
    IF qr.present /\ qr.is_conversational THEN "conversational"
    ELSE IF qr.present /\ (qr.is_multi_query \/ qr.is_why_analysis) THEN "analysis"
    ELSE IF qr.present /\ qr.sql # "" THEN "sql"
    ELSE ""

ConvertMessage(msg, t, rnd) ==
    LET qr == msg.query_result
    IN  [id |-> OrElse(msg._id, "msg-" \o ToString(t) \o "-" \o rnd),
         isUser |-> (msg.role = "user"),
         text |-> msg.content,
         timestamp |-> IF msg.created_at # NoDate THEN msg.created_at ELSE t,
         query_type |-> QueryTypeOf(qr),
         sqlResult |-> IF qr.present /\ qr.sql # ""
                       THEN [present |-> TRUE, sql |-> qr.sql, data |-> qr.results,
                             error |-> qr.error, pagination |-> qr.pagination,
                             table_id |-> IF qr.pagination.present
                                          THEN qr.pagination.table_id ELSE ""]
                       ELSE NoSqlResult,
         analysisResult |-> IF qr.present /\ qr.hasTables
                            THEN [present |-> TRUE, tables |-> qr.tables,
                                  analysis_type |-> qr.analysis_type]
                            ELSE NoAnalysisResult]

ConvertedMessages(stored, t, rnd) ==
    [i \in 1..Len(stored) |-> ConvertMessage(stored[i], t, rnd)]

\* mutation: the fetched turns are installed without the length test
LoadedTranscriptUnchecked(stored, t, rnd) == ConvertedMessages(stored, t, rnd)

\* mutation: no welcome turn is substituted for an empty session
LoadedTranscriptWithoutWelcome(stored, t, rnd) ==
    AppendTurn(ConvertedMessages(stored, t, rnd), LoadedNotice(Len(stored), t))

\* the transcript after a successful load (both setMessages calls)
LoadedTranscript(stored, t, rnd) ==
    IF Len(stored) > 0
    THEN AppendTurn(ConvertedMessages(stored, t, rnd), LoadedNotice(Len(stored), t))
    ELSE AppendTurn(<< WelcomeMessage(t) >>, LoadedNotice(0, t))

(***************************************************************************)
(* Suspended handler invocations.                                          *)
(***************************************************************************)
\* call: the boundary call awaited; sid: the session id the invocation holds
\* (the closure's sessionId, or currentSessionId); sel: selectedSessionId;
\* name: the session name sent with createSession, "" for the other calls
Task(call, sid, sel, messageId, tableId, page) ==
    [call |-> call, sid |-> sid, sel |-> sel, messageId |-> messageId,
     tableId |-> tableId, page |-> page, name |-> ""]

RemoveAt(seq, i) == [j \in 1..(Len(seq) - 1) |-> IF j < i THEN seq[j] ELSE seq[j + 1]]

\* useEffect(..., [sessionId]): after a render in which sessionId changed,
\* fetchSessionInfo runs with the new value and awaits getSessionInfo
SessionEffect(old, new) ==
    IF new # old /\ new # NoSession
    THEN << Task("getSessionInfo", new, "", "", "", 0) >>
    ELSE <<>>

\* fetchSessionInfo called from a closure whose sessionId is sid
FetchSessionInfo(sid) ==
    IF sid # NoSession
    THEN << Task("getSessionInfo", sid, "", "", "", 0) >>
    ELSE <<>>

\* the (messageId, tableId) pairs the tables rendered for msgs pass to
\* handlePageChange
PageTargetsOf(msgs) ==
    { <<msgs[i].id, msgs[i].sqlResult.table_id>> :
        i \in { k \in 1..Len(msgs) :
                  msgs[k].query_type = "sql" /\ msgs[k].sqlResult.present } }
    \cup
    UNION { { <<msgs[i].id, msgs[i].analysisResult.tables[j].table_id>> :
                j \in 1..Len(msgs[i].analysisResult.tables) } :
            i \in { k \in 1..Len(msgs) :
                      msgs[k].query_type = "analysis"
                      /\ msgs[k].analysisResult.present } }

\* Dashboard state: connectedWorkspace, autoSessionId ("" when null) and
\* showWorkspaceManager
DashboardState(w, sid, show) ==
    [connectedWorkspace |-> w, autoSessionId |-> sid, showWorkspaceManager |-> show]

\* ChatBot as constructed at time t (useState initial values), nothing
\* suspended
NewChatBot(t) ==
    [messages |-> << WelcomeMessage(t) >>, isProcessing |-> FALSE, sessionId |-> NoSession,
     sessionInfo |-> [present |-> FALSE, sid |-> "", error |-> FALSE],
     isRefreshing |-> FALSE, tasks |-> <<>>]

\* the state with every setState call made so far applied: of the ChatBot
\* (with its suspended invocations), the Dashboard and the WorkspaceManager
Pending ==
    [chat |-> [messages |-> messages, isProcessing |-> isProcessing,
               sessionId |-> sessionId, sessionInfo |-> sessionInfo,
               isRefreshing |-> isRefreshing, tasks |-> tasks],
     dashboard |-> dashboard, connectingWorkspace |-> connectingWorkspace,
     connects |-> connects]

\* what a render gives the handlers (the sessionId of their closures and of
\* the [sessionId] effect) and the controls (input and refresh button
\* disabled, page controls of the tables shown, manager or chat shown, the
\* Connect button disabled)
ViewOf(chat, show, connecting) ==
    [sessionId |-> chat.sessionId, isProcessing |-> chat.isProcessing,
     isRefreshing |-> chat.isRefreshing, targets |-> PageTargetsOf(chat.messages),
     showWorkspaceManager |-> show, connectingWorkspace |-> connecting]

\* what a render of the current state gives
View == ViewOf(Pending.chat, dashboard.showWorkspaceManager, connectingWorkspace)

(***************************************************************************)
(* useEffect(..., [autoSessionId]) and the renders                         *)
(***************************************************************************)
\* handleSessionSelect(selectedSessionId) called from a closure whose
\* sessionId is sid, up to its await of getSessionMessages
HandleSessionSelect(chat, selectedSessionId, sid) ==
    [chat EXCEPT !.sessionId = selectedSessionId,
                 !.messages = << LoadingMessage(now) >>,
                 !.tasks = Append(@, Task("getSessionMessages", sid, selectedSessionId,
                                          "", "", 0))]

\* mutation: the effect only activates the session id it was handed
AutoSessionEffectSettingIdOnly(chat, auto) ==
    IF auto # NoSession /\ auto # chat.sessionId
    THEN [chat EXCEPT !.sessionId = auto]
    ELSE chat

\* the [autoSessionId] effect of a render with state `chat` and prop `auto`:
\* if (autoSessionId && autoSessionId !== sessionId)
\* handleSessionSelect(autoSessionId); what that sets is rendered later
AutoSessionEffect(chat, auto) ==
    IF auto # NoSession /\ auto # chat.sessionId
    THEN HandleSessionSelect(chat, auto, chat.sessionId)
    ELSE chat

\* React renders state st and commits it. The Dashboard shows the manager
\* or the chat with its props; a component no longer shown is unmounted
\* (its suspended invocations go on without it), one newly shown is mounted
\* with its initial state. Then the effects of the render run: [sessionId],
\* and [autoSessionId] if the prop changed (at the mount: always)
Commit(st) ==
    LET show == st.dashboard.showWorkspaceManager
        mounts == rendered.showWorkspaceManager /\ ~show
        unmounts == ~rendered.showWorkspaceManager /\ show
        auto == IF show THEN NoSession ELSE st.dashboard.autoSessionId
        state == IF mounts \/ unmounts THEN NewChatBot(now) ELSE st.chat
        looked == [state EXCEPT
                     !.tasks = @ \o SessionEffect(rendered.sessionId, state.sessionId)]
        chat == IF ~show /\ (mounts \/ auto # autoSessionId)
                THEN AutoSessionEffect(looked, auto)
                ELSE looked
        connecting == IF mounts \/ unmounts THEN NoWorkspace ELSE st.connectingWorkspace
    IN  /\ messages' = chat.messages
        /\ isProcessing' = chat.isProcessing
        /\ sessionId' = chat.sessionId
        /\ sessionInfo' = chat.sessionInfo
        /\ isRefreshing' = chat.isRefreshing
        /\ tasks' = chat.tasks
        /\ workspaceId' = IF show THEN NoWorkspace ELSE st.dashboard.connectedWorkspace
        /\ autoSessionId' = auto
        /\ dashboard' = st.dashboard
        /\ connectingWorkspace' = connecting
        /\ connects' = IF mounts
                       THEN [j \in 1..Len(st.connects) |->
                               [st.connects[j] EXCEPT !.live = FALSE]]
                       ELSE st.connects
        /\ orphans' = IF unmounts
                      THEN [orphans EXCEPT !.tasks = @ \o st.chat.tasks]
                      ELSE orphans
        /\ rendered' = ViewOf(state, show, connecting)

\* React renders the state set since the last render
Render ==
    /\ \/ rendered # View
       \/ /\ ~dashboard.showWorkspaceManager
          /\ <<workspaceId, autoSessionId>>
               # <<dashboard.connectedWorkspace, dashboard.autoSessionId>>
    /\ Commit(Pending)
    /\ UNCHANGED <<now, nOps, nCreated, auth>>

\* createSession: the _id of the k-th session the backend creates
CreatedSessionId(k) == "c" \o ToString(k)

\* AuthProvider: no user, no token, nothing in flight (after the mount
\* found no stored token)
SignedOut == [user |-> "", loading |-> FALSE, error |-> "", token |-> "", call |-> ""]

\* AuthProvider after a login: the user is loaded and the token stored
SignedIn == [user |-> "u1", loading |-> FALSE, error |-> "", token |-> "tok1", call |-> ""]

(***************************************************************************)
(* Initial state: ChatBot as constructed (useState initial values).        *)
(***************************************************************************)
Init ==
    /\ messages = << WelcomeMessage(0) >>
    /\ isProcessing = FALSE
    /\ sessionId = NoSession
    /\ sessionInfo = [present |-> FALSE, sid |-> "", error |-> FALSE]
    /\ isRefreshing = FALSE
    /\ workspaceId \in Workspaces \cup {NoWorkspace}
    /\ now = 0
    /\ tasks = <<>>
    /\ nOps = 0
    /\ nCreated = 0
    /\ autoSessionId = NoSession
    /\ orphans = [tasks |-> <<>>, connects |-> <<>>]
    /\ dashboard = DashboardState(workspaceId, autoSessionId, FALSE)
    /\ connectingWorkspace = NoWorkspace
    /\ connects = <<>>
    /\ auth = SignedIn
    /\ rendered = View

\* the clock advances
Tick ==
    /\ now < MaxClock
    /\ now' = now + 1
    /\ UNCHANGED <<messages, isProcessing, sessionId, sessionInfo, isRefreshing,
                   workspaceId, tasks, nOps, nCreated, autoSessionId, orphans,
                   dashboard, connectingWorkspace, connects, auth, rendered>>

(***************************************************************************)
(* handleSendMessage                                                       *)
(***************************************************************************)
\* the form of a mounted ChatBot is submitted (the input control is enabled)
\* with text `input`
Submit(input) ==
    /\ ~rendered.showWorkspaceManager
    /\ ~rendered.isProcessing
    /\ IF Trim(input) = ""
       THEN UNCHANGED vars
       ELSE /\ nOps < MaxOps
            /\ nOps' = nOps + 1
            /\ LET t == IF rendered.sessionId = NoSession /\ workspaceId # NoWorkspace
                        THEN [Task("createSession", rendered.sessionId, "", "", "", 0)
                                EXCEPT !.name = SessionName(now)]
                        ELSE Task("executeQuery", rendered.sessionId, "", "", "", 0)
               IN  Commit([Pending EXCEPT
                             !.chat.messages = AppendTurn(messages, UserMessage(input, now)),
                             !.chat.isProcessing = TRUE,
                             !.chat.tasks = Append(tasks, t)])
            /\ UNCHANGED <<now, nCreated, auth>>

\* mutation: the resolver is called with the session id of the handler's
\* closure instead of the id of the session just created
SendCreateOKWithStaleId(i) ==
    /\ i \in 1..Len(tasks)
    /\ tasks[i].call = "createSession"
    /\ LET newId == CreatedSessionId(nCreated + 1)
           t == Task("executeQuery", tasks[i].sid, "", "", "", 0)
       IN  /\ nCreated' = nCreated + 1
           /\ sessionId' = newId
           /\ messages' = AppendTurn(messages, SessionCreatedMessage(tasks[i].name, now))
           /\ tasks' = [tasks EXCEPT ![i] = t]
    /\ UNCHANGED <<isProcessing, sessionInfo, isRefreshing, workspaceId, now, nOps,
                   autoSessionId, orphans, dashboard,
                   connectingWorkspace, connects, auth, rendered>>

\* createSession of the auto-provisioning resolves
SendCreateOK(i) ==
    /\ i \in 1..Len(tasks)
    /\ tasks[i].call = "createSession"
    /\ LET newId == CreatedSessionId(nCreated + 1)
           t == Task("executeQuery", newId, "", "", "", 0)
       IN  /\ nCreated' = nCreated + 1
           /\ sessionId' = newId
           /\ messages' = AppendTurn(messages, SessionCreatedMessage(tasks[i].name, now))
           /\ tasks' = [tasks EXCEPT ![i] = t]
    /\ UNCHANGED <<isProcessing, sessionInfo, isRefreshing, workspaceId, now, nOps,
                   autoSessionId, orphans, dashboard,
                   connectingWorkspace, connects, auth, rendered>>

\* mutation: after the failure notice the handler goes on to the resolver
SendCreateFailContinuing(i) ==
    /\ i \in 1..Len(tasks)
    /\ tasks[i].call = "createSession"
    /\ messages' = AppendTurn(messages, CreateFailedMessage(now))
    /\ tasks' = [tasks EXCEPT ![i] = Task("executeQuery", tasks[i].sid, "", "", "", 0)]
    /\ UNCHANGED <<isProcessing, sessionId, sessionInfo, isRefreshing, workspaceId, now,
                   nOps, nCreated, autoSessionId, orphans, dashboard,
                   connectingWorkspace, connects, auth, rendered>>

\* createSession of the auto-provisioning rejects
SendCreateFail(i) ==
    /\ i \in 1..Len(tasks)
    /\ tasks[i].call = "createSession"
    /\ messages' = AppendTurn(messages, CreateFailedMessage(now))
    /\ isProcessing' = FALSE
    /\ tasks' = RemoveAt(tasks, i)
    /\ UNCHANGED <<sessionId, sessionInfo, isRefreshing, workspaceId, now, nOps,
                   nCreated, autoSessionId, orphans, dashboard,
                   connectingWorkspace, connects, auth, rendered>>

\* the Math.random() suffixes drawn while classifying `result`
RandomDraws(result) ==
    IF result.query_type = "analysis" /\ \E j \in 1..Len(result.tables) : result.tables[j].table_id = ""
    THEN [1..Len(result.tables) -> RandSuffixes]
    ELSE {[j \in 1..Len(result.tables) |-> "a"]}

\* position of the last user turn of msgs
LastUserIndex(msgs) ==
    CHOOSE k \in 1..Len(msgs) :
        msgs[k].isUser /\ \A j \in (k + 1)..Len(msgs) : ~msgs[j].isUser

\* mutation: the turns are kept in the order in which the submits were
\* issued: while a later submit is still in flight the response is placed
\* before that submit's user turn
QueryOKInIssueOrder(i, result, rnds) ==
    /\ i \in 1..Len(tasks)
    /\ tasks[i].call = "executeQuery"
    /\ messages' =
          IF \E j \in (i + 1)..Len(tasks) : tasks[j].call \in {"executeQuery", "createSession"}
          THEN LET k == LastUserIndex(messages)
               IN  SubSeq(messages, 1, k - 1) \o << ResponseTurn(result, now, rnds) >>
                      \o SubSeq(messages, k, Len(messages))
          ELSE AppendTurn(messages, ResponseTurn(result, now, rnds))
    /\ isProcessing' = FALSE
    /\ tasks' = RemoveAt(tasks, i)
    /\ UNCHANGED <<sessionId, sessionInfo, isRefreshing, workspaceId, now, nOps,
                   nCreated, autoSessionId, orphans, dashboard,
                   connectingWorkspace, connects, auth, rendered>>

\* executeQuery resolves with `result`
QueryOK(i, result, rnds) ==
    /\ i \in 1..Len(tasks)
    /\ tasks[i].call = "executeQuery"
    /\ messages' = AppendTurn(messages, ResponseTurn(result, now, rnds))
    /\ isProcessing' = FALSE
    /\ tasks' = RemoveAt(tasks, i)
    /\ UNCHANGED <<sessionId, sessionInfo, isRefreshing, workspaceId, now, nOps,
                   nCreated, autoSessionId, orphans, dashboard,
                   connectingWorkspace, connects, auth, rendered>>

\* mutation: the failed call is reported and issued again
QueryFailRetrying(i) ==
    /\ i \in 1..Len(tasks)
    /\ tasks[i].call = "executeQuery"
    /\ messages' = AppendTurn(messages, QueryErrorMessage("Network Error", now))
    /\ UNCHANGED <<isProcessing, tasks, sessionId, sessionInfo, isRefreshing,
                   workspaceId, now, nOps, nCreated, autoSessionId, orphans,
                   dashboard, connectingWorkspace, connects, auth, rendered>>

\* executeQuery rejects
QueryFail(i) ==
    /\ i \in 1..Len(tasks)
    /\ tasks[i].call = "executeQuery"
    /\ messages' = AppendTurn(messages, QueryErrorMessage("Network Error", now))
    /\ isProcessing' = FALSE
    /\ tasks' = RemoveAt(tasks, i)
    /\ UNCHANGED <<sessionId, sessionInfo, isRefreshing, workspaceId, now, nOps,
                   nCreated, autoSessionId, orphans, dashboard,
                   connectingWorkspace, connects, auth, rendered>>

(***************************************************************************)
(* handlePageChange                                                        *)
(***************************************************************************)
\* the (messageId, tableId) pairs the tables on screen pass to
\* handlePageChange
PageTargets == rendered.targets

\* mutation: the request is sent without testing the session and table ids
PageChangeUnguarded(messageId, tableId, newPage) ==
    /\ <<messageId, tableId>> \in PageTargets
    /\ nOps < MaxOps
    /\ nOps' = nOps + 1
    /\ LET t == Task("getPaginatedResults", rendered.sessionId, "", messageId,
                     tableId, newPage)
       IN  Commit([Pending EXCEPT !.chat.isProcessing = TRUE,
                                  !.chat.tasks = Append(tasks, t)])
    /\ UNCHANGED <<now, nCreated, auth>>

\* a page control of a rendered table is used
PageChange(messageId, tableId, newPage) ==
    /\ <<messageId, tableId>> \in PageTargets
    /\ IF rendered.sessionId = NoSession \/ tableId = ""
       THEN UNCHANGED vars
       ELSE /\ nOps < MaxOps
            /\ nOps' = nOps + 1
            /\ LET t == Task("getPaginatedResults", rendered.sessionId, "", messageId,
                             tableId, newPage)
               IN  Commit([Pending EXCEPT !.chat.isProcessing = TRUE,
                                          !.chat.tasks = Append(tasks, t)])
            /\ UNCHANGED <<now, nCreated, auth>>

\* getPaginatedResults resolves with `result`
PageOK(i, result) ==
    /\ i \in 1..Len(tasks)
    /\ tasks[i].call = "getPaginatedResults"
    /\ result \in PageResults(tasks[i].tableId, tasks[i].page)
    /\ messages' = UpdateTurnResult(messages, tasks[i].messageId, tasks[i].tableId, result)
    /\ isProcessing' = FALSE
    /\ tasks' = RemoveAt(tasks, i)
    /\ UNCHANGED <<sessionId, sessionInfo, isRefreshing, workspaceId, now, nOps,
                   nCreated, autoSessionId, orphans, dashboard,
                   connectingWorkspace, connects, auth, rendered>>

\* mutation: the failure is reported but the flag is not reset
PageFailStillProcessing(i) ==
    /\ i \in 1..Len(tasks)
    /\ tasks[i].call = "getPaginatedResults"
    /\ messages' = AppendTurn(messages, PageErrorMessage(tasks[i].page, "Network Error", now))
    /\ tasks' = RemoveAt(tasks, i)
    /\ UNCHANGED <<isProcessing, sessionId, sessionInfo, isRefreshing, workspaceId, now,
                   nOps, nCreated, autoSessionId, orphans, dashboard,
                   connectingWorkspace, connects, auth, rendered>>

\* getPaginatedResults rejects
PageFail(i) ==
    /\ i \in 1..Len(tasks)
    /\ tasks[i].call = "getPaginatedResults"
    /\ messages' = AppendTurn(messages, PageErrorMessage(tasks[i].page, "Network Error", now))
    /\ isProcessing' = FALSE
    /\ tasks' = RemoveAt(tasks, i)
    /\ UNCHANGED <<sessionId, sessionInfo, isRefreshing, workspaceId, now, nOps,
                   nCreated, autoSessionId, orphans, dashboard,
                   connectingWorkspace, connects, auth, rendered>>

(***************************************************************************)
(* handleSessionSelect / loadSessionMessages                               *)
(***************************************************************************)
\* a session of the sessions list is selected (the list needs a workspace)
SessionSelect(selectedSessionId) ==
    /\ workspaceId # NoWorkspace
    /\ nOps < MaxOps
    /\ nOps' = nOps + 1
    /\ Commit([Pending EXCEPT
                 !.chat = HandleSessionSelect(@, selectedSessionId, rendered.sessionId)])
    /\ UNCHANGED <<now, nCreated, auth>>

\* getSessionMessages resolves; afterwards handleSessionSelect calls the
\* fetchSessionInfo of its own closure
LoadOK(i, rnd) ==
    /\ i \in 1..Len(tasks)
    /\ tasks[i].call = "getSessionMessages"
    /\ messages' = LoadedTranscript(SessionMessages(tasks[i].sel), now, rnd)
    /\ tasks' = RemoveAt(tasks, i) \o FetchSessionInfo(tasks[i].sid)
    /\ UNCHANGED <<isProcessing, sessionId, sessionInfo, isRefreshing, workspaceId, now,
                   nOps, nCreated, autoSessionId, orphans, dashboard,
                   connectingWorkspace, connects, auth, rendered>>

\* getSessionMessages rejects
LoadFail(i) ==
    /\ i \in 1..Len(tasks)
    /\ tasks[i].call = "getSessionMessages"
    /\ messages' = << LoadFailedMessage(now) >>
    /\ tasks' = RemoveAt(tasks, i) \o FetchSessionInfo(tasks[i].sid)
    /\ UNCHANGED <<isProcessing, sessionId, sessionInfo, isRefreshing, workspaceId, now,
                   nOps, nCreated, autoSessionId, orphans, dashboard,
                   connectingWorkspace, connects, auth, rendered>>

(***************************************************************************)
(* Dashboard and WorkspaceManager: connecting a workspace                  *)
(***************************************************************************)
\* the workspaces listed by the workspace manager
ManagedWorkspaces == {"w1", "w2"}

\* a session as listed by listWorkspaceSessions
SessionSummary(id, updatedAt) == [_id |-> id, updated_at |-> updatedAt]

\* listWorkspaceSessions results: none, one, several in either order, a tie
SessionLists ==
    { <<>>,
      << SessionSummary("s1", 1) >>,
      << SessionSummary("s1", 1), SessionSummary("s2", 2) >>,
      << SessionSummary("s2", 2), SessionSummary("s1", 1) >>,
      << SessionSummary("s1", 2), SessionSummary("s2", 2) >>,
      << SessionSummary("s2", 1), SessionSummary("s1", 3), SessionSummary("s3", 2) >> }

\* mutation: the comparator orders the oldest session first
CompareUpdatedAscending(a, b) == a.updated_at - b.updated_at

\* (a, b) => new Date(b.updated_at).getTime() - new Date(a.updated_at).getTime()
CompareUpdated(a, b) == b.updated_at - a.updated_at

\* Array.prototype.sort with that comparator: a stable sort
RECURSIVE InsertSession(_, _)
InsertSession(sorted, x) ==
    IF sorted = <<>> THEN << x >>
    ELSE IF CompareUpdated(sorted[1], x) <= 0
         THEN << sorted[1] >> \o InsertSession(Tail(sorted), x)
         ELSE << x >> \o sorted

RECURSIVE SortSessions(_)
SortSessions(sessions) ==
    IF sessions = <<>> THEN <<>>
    ELSE InsertSession(SortSessions(SubSeq(sessions, 1, Len(sessions) - 1)),
                       sessions[Len(sessions)])

\* sortedSessions[0]._id, or no id when the list is empty
MostRecentSessionId(sessions) ==
    IF Len(sessions) > 0 THEN SortSessions(sessions)[1]._id ELSE NoSession

\* a handleConnectWorkspace invocation suspended at `call`; live while the
\* WorkspaceManager instance that started it is mounted
ConnectTask(call, w, live) == [call |-> call, workspaceId |-> w, live |-> live]

\* the dashboard with the workspace manager shown and no chat mounted
InitDashboard ==
    /\ messages = << WelcomeMessage(0) >>
    /\ isProcessing = FALSE
    /\ sessionId = NoSession
    /\ sessionInfo = [present |-> FALSE, sid |-> "", error |-> FALSE]
    /\ isRefreshing = FALSE
    /\ workspaceId = NoWorkspace
    /\ now = 0
    /\ tasks = <<>>
    /\ nOps = 0
    /\ nCreated = 0
    /\ autoSessionId = NoSession
    /\ orphans = [tasks |-> <<>>, connects |-> <<>>]
    /\ dashboard = DashboardState(NoWorkspace, NoSession, TRUE)
    /\ connectingWorkspace = NoWorkspace
    /\ connects = <<>>
    /\ auth = SignedIn
    /\ rendered = View

\* the Connect button of workspace w, shown by the manager and enabled
\* unless w is the workspace being connected, is pressed: handleConnectWorkspace
\* up to its await of activateWorkspace
ConnectWorkspace(w) ==
    /\ auth.user # ""
    /\ rendered.showWorkspaceManager
    /\ rendered.connectingWorkspace # w
    /\ nOps < MaxOps
    /\ nOps' = nOps + 1
    /\ Commit([Pending EXCEPT
                 !.connectingWorkspace = w,
                 !.connects = Append(connects, ConnectTask("activateWorkspace", w, TRUE))])
    /\ UNCHANGED <<now, nCreated, auth>>

\* activateWorkspace resolves: the sessions of the workspace are listed
ActivateOK(i) ==
    /\ i \in 1..Len(connects)
    /\ connects[i].call = "activateWorkspace"
    /\ connects' = [connects EXCEPT ![i].call = "listWorkspaceSessions"]
    /\ UNCHANGED <<messages, isProcessing, sessionId, sessionInfo, isRefreshing,
                   workspaceId, now, tasks, nOps, nCreated, autoSessionId,
                   orphans, dashboard, connectingWorkspace, auth, rendered>>

\* handleConnectWorkspace from onWorkspaceConnect(w, sid) to its end:
\* Dashboard.handleWorkspaceConnect sets the Dashboard state, the finally
\* clears the indicator of the manager that started the invocation; React
\* renders later
WorkspaceConnected(i, w, sid) ==
    /\ dashboard' = DashboardState(w, sid, FALSE)
    /\ connectingWorkspace' = IF connects[i].live THEN NoWorkspace ELSE connectingWorkspace
    /\ connects' = RemoveAt(connects, i)
    /\ UNCHANGED <<messages, isProcessing, sessionId, sessionInfo, isRefreshing,
                   workspaceId, now, tasks, nOps, nCreated, autoSessionId, orphans,
                   auth, rendered>>

\* listWorkspaceSessions resolves with `sessions`
ListOK(i, sessions) ==
    /\ i \in 1..Len(connects)
    /\ connects[i].call = "listWorkspaceSessions"
    /\ WorkspaceConnected(i, connects[i].workspaceId, MostRecentSessionId(sessions))

\* listWorkspaceSessions rejects: connected without a session to resume
ListFail(i) ==
    /\ i \in 1..Len(connects)
    /\ connects[i].call = "listWorkspaceSessions"
    /\ WorkspaceConnected(i, connects[i].workspaceId, NoSession)

\* mutation: the workspace is connected although its activation failed
ActivateFailConnectingAnyway(i) ==
    /\ i \in 1..Len(connects)
    /\ connects[i].call = "activateWorkspace"
    /\ WorkspaceConnected(i, connects[i].workspaceId, NoSession)

\* activateWorkspace rejects: an alert is shown and the indicator cleared
ActivateFail(i) ==
    /\ i \in 1..Len(connects)
    /\ connects[i].call = "activateWorkspace"
    /\ connectingWorkspace' = IF connects[i].live THEN NoWorkspace ELSE connectingWorkspace
    /\ connects' = RemoveAt(connects, i)
    /\ UNCHANGED <<messages, isProcessing, sessionId, sessionInfo, isRefreshing,
                   workspaceId, now, tasks, nOps, nCreated, autoSessionId,
                   orphans, dashboard, auth, rendered>>

\* the Back to Workspaces button, shown with the chat, is pressed:
\* handleBackToWorkspaces; the render unmounts the chat and mounts a manager
BackToWorkspaces ==
    /\ ~rendered.showWorkspaceManager
    /\ nOps < MaxOps
    /\ nOps' = nOps + 1
    /\ Commit([Pending EXCEPT !.dashboard = DashboardState(NoWorkspace, NoSession, TRUE)])
    /\ UNCHANGED <<now, nCreated, auth>>

\* an invocation of an unmounted ChatBot settles (ok: resolves): its
\* setState calls change nothing, the calls it makes next are made
OrphanSettles(i, ok) ==
    /\ i \in 1..Len(orphans.tasks)
    /\ LET t == orphans.tasks[i]
           creates == ok /\ t.call \in {"createSession", "createSessionNewChat"}
           next == IF ok /\ t.call = "createSession"
                   THEN << Task("executeQuery", CreatedSessionId(nCreated + 1),
                                "", "", "", 0) >>
                   ELSE IF t.call = "getSessionMessages"
                        THEN FetchSessionInfo(t.sid)
                        ELSE <<>>
       IN  /\ nCreated' = IF creates THEN nCreated + 1 ELSE nCreated
           /\ orphans' = [orphans EXCEPT !.tasks = RemoveAt(@, i) \o next]
    /\ UNCHANGED <<messages, isProcessing, sessionId, sessionInfo, isRefreshing,
                   workspaceId, now, tasks, nOps, autoSessionId, dashboard,
                   connectingWorkspace, connects, auth, rendered>>

\* a handleConnectWorkspace invocation of an unmounted Dashboard settles:
\* after activateWorkspace resolved the sessions are listed, the state it
\* sets afterwards is that of components no longer mounted
OrphanConnectSettles(i, ok) ==
    /\ i \in 1..Len(orphans.connects)
    /\ orphans' = IF ok /\ orphans.connects[i].call = "activateWorkspace"
                  THEN [orphans EXCEPT !.connects[i].call = "listWorkspaceSessions"]
                  ELSE [orphans EXCEPT !.connects = RemoveAt(@, i)]
    /\ UNCHANGED <<messages, isProcessing, sessionId, sessionInfo, isRefreshing,
                   workspaceId, now, tasks, nOps, nCreated, autoSessionId, dashboard,
                   connectingWorkspace, connects, auth, rendered>>

(***************************************************************************)
(* AuthProvider: login and logout                                          *)
(***************************************************************************)
\* access tokens issued by the credential exchange
Tokens == {"tok1", "tok2"}

\* err.response?.data?.detail of a rejected call, "" when absent
ErrorDetails == {"", "Incorrect email or password", "Email already registered"}

\* the application opened without a stored token: signed out, the
\* dashboard not mounted
InitLogin ==
    /\ messages = << WelcomeMessage(0) >>
    /\ isProcessing = FALSE
    /\ sessionId = NoSession
    /\ sessionInfo = [present |-> FALSE, sid |-> "", error |-> FALSE]
    /\ isRefreshing = FALSE
    /\ workspaceId = NoWorkspace
    /\ now = 0
    /\ tasks = <<>>
    /\ nOps = 0
    /\ nCreated = 0
    /\ autoSessionId = NoSession
    /\ orphans = [tasks |-> <<>>, connects |-> <<>>]
    /\ dashboard = DashboardState(NoWorkspace, NoSession, TRUE)
    /\ connectingWorkspace = NoWorkspace
    /\ connects = <<>>
    /\ auth = SignedOut
    /\ rendered = View

\* what the login form and the dashboard do not touch in the chat
ChatUntouched ==
    UNCHANGED <<messages, isProcessing, sessionId, sessionInfo, isRefreshing,
                workspaceId, now, tasks, nCreated, autoSessionId, orphans,
                dashboard, connectingWorkspace, connects, rendered>>

\* the form is submitted in register mode (its button is disabled while
\* loading)
Register ==
    /\ auth.user = ""
    /\ ~auth.loading
    /\ nOps < MaxOps
    /\ nOps' = nOps + 1
    /\ auth' = [auth EXCEPT !.error = "", !.loading = TRUE, !.call = "register"]
    /\ ChatUntouched

\* the registration resolves: register calls login with the same credentials
RegisterOK ==
    /\ auth.call = "register"
    /\ auth' = [auth EXCEPT !.error = "", !.loading = TRUE, !.call = "login"]
    /\ nOps' = nOps
    /\ ChatUntouched

\* the registration rejects: the error is the detail of the response, or
\* 'Failed to register'
RegisterFail(detail) ==
    /\ auth.call = "register"
    /\ auth' = [auth EXCEPT !.error = OrElse(detail, "Failed to register"),
                            !.loading = FALSE, !.call = ""]
    /\ nOps' = nOps
    /\ ChatUntouched

\* the form is submitted in login mode (its button is disabled while loading)
Login ==
    /\ auth.user = ""
    /\ ~auth.loading
    /\ nOps < MaxOps
    /\ nOps' = nOps + 1
    /\ auth' = [auth EXCEPT !.error = "", !.loading = TRUE, !.call = "login"]
    /\ ChatUntouched

\* the credential exchange resolves: the token is stored, then the current
\* user is looked up
LoginOK(token) ==
    /\ auth.call = "login"
    /\ auth' = [auth EXCEPT !.token = token, !.call = "getCurrentUser"]
    /\ nOps' = nOps
    /\ ChatUntouched

\* the credential exchange rejects: the error is the detail of the response,
\* or 'Failed to login'
LoginFail(detail) ==
    /\ auth.call = "login"
    /\ auth' = [auth EXCEPT !.error = OrElse(detail, "Failed to login"), !.loading = FALSE,
                            !.call = ""]
    /\ nOps' = nOps
    /\ ChatUntouched

\* the current-user lookup of login resolves; the router opens the dashboard
CurrentUserOK ==
    /\ auth.call = "getCurrentUser"
    /\ auth' = [auth EXCEPT !.user = "u1", !.loading = FALSE, !.call = ""]
    /\ nOps' = nOps
    /\ ChatUntouched

\* the current-user lookup of login rejects
CurrentUserFail(detail) ==
    /\ auth.call = "getCurrentUser"
    /\ auth' = [auth EXCEPT !.error = OrElse(detail, "Failed to login"), !.loading = FALSE,
                            !.call = ""]
    /\ nOps' = nOps
    /\ ChatUntouched

\* logout: the token is removed, the user cleared and the router leaves the
\* dashboard, which is unmounted with the chat or manager it shows; what
\* they have suspended goes on without them
Logout ==
    /\ auth.user # ""
    /\ nOps < MaxOps
    /\ nOps' = nOps + 1
    /\ auth' = [auth EXCEPT !.user = "", !.token = ""]
    /\ orphans' = [tasks |-> orphans.tasks \o tasks,
                   connects |-> orphans.connects \o connects]
    /\ dashboard' = DashboardState(NoWorkspace, NoSession, TRUE)
    /\ workspaceId' = NoWorkspace
    /\ autoSessionId' = NoSession
    /\ connectingWorkspace' = NoWorkspace
    /\ connects' = <<>>
    /\ messages' = NewChatBot(now).messages
    /\ isProcessing' = FALSE
    /\ sessionId' = NoSession
    /\ sessionInfo' = NewChatBot(now).sessionInfo
    /\ isRefreshing' = FALSE
    /\ tasks' = <<>>
    /\ rendered' = ViewOf(NewChatBot(now), TRUE, NoWorkspace)
    /\ UNCHANGED <<now, nCreated>>

(***************************************************************************)
(* fetchSessionInfo                                                        *)
(***************************************************************************)
\* getSessionInfo resolves with the session's info
InfoOK(i) ==
    /\ i \in 1..Len(tasks)
    /\ tasks[i].call = "getSessionInfo"
    /\ sessionInfo' = [present |-> TRUE, sid |-> tasks[i].sid, error |-> FALSE]
    /\ tasks' = RemoveAt(tasks, i)
    /\ UNCHANGED <<messages, isProcessing, sessionId, isRefreshing, workspaceId, now,
                   nOps, nCreated, autoSessionId, orphans, dashboard,
                   connectingWorkspace, connects, auth, rendered>>

\* getSessionInfo resolves with the fallback error object (info.error set)
InfoErrorObject(i) ==
    /\ i \in 1..Len(tasks)
    /\ tasks[i].call = "getSessionInfo"
    /\ sessionInfo' = [present |-> TRUE, sid |-> tasks[i].sid, error |-> TRUE]
    /\ messages' = AppendTurn(messages, SessionErrorMessage("Session not found", now))
    /\ tasks' = RemoveAt(tasks, i)
    /\ UNCHANGED <<isProcessing, sessionId, isRefreshing, workspaceId, now, nOps,
                   nCreated, autoSessionId, orphans, dashboard,
                   connectingWorkspace, connects, auth, rendered>>

\* getSessionInfo rejects
InfoThrow(i) ==
    /\ i \in 1..Len(tasks)
    /\ tasks[i].call = "getSessionInfo"
    /\ sessionId' = NoSession
    /\ sessionInfo' = [present |-> FALSE, sid |-> "", error |-> FALSE]
    /\ tasks' = RemoveAt(tasks, i)
    /\ UNCHANGED <<messages, isProcessing, isRefreshing, workspaceId, now, nOps,
                   nCreated, autoSessionId, orphans, dashboard,
                   connectingWorkspace, connects, auth, rendered>>

(***************************************************************************)
(* handleNewChat                                                           *)
(***************************************************************************)
\* handleNewChat is called: it returns at once without a workspace, else
\* awaits createSession
NewChat ==
    IF workspaceId = NoWorkspace
    THEN UNCHANGED vars
    ELSE /\ nOps < MaxOps
         /\ nOps' = nOps + 1
         /\ LET t == [Task("createSessionNewChat", rendered.sessionId, "", "", "", 0)
                       EXCEPT !.name = SessionName(now)]
            IN  /\ tasks' = Append(tasks, t)
         /\ UNCHANGED <<messages, isProcessing, sessionId, sessionInfo, isRefreshing,
                        workspaceId, now, nCreated, autoSessionId, orphans,
                        dashboard, connectingWorkspace, connects, auth, rendered>>

\* mutation: the notice is appended to the transcript shown so far
NewChatOKKeepingTranscript(i) ==
    /\ i \in 1..Len(tasks)
    /\ tasks[i].call = "createSessionNewChat"
    /\ LET newId == CreatedSessionId(nCreated + 1)
       IN  /\ nCreated' = nCreated + 1
           /\ sessionId' = newId
           /\ messages' = AppendTurn(messages, NewChatMessage(tasks[i].name, now))
           /\ tasks' = RemoveAt(tasks, i)
    /\ UNCHANGED <<isProcessing, sessionInfo, isRefreshing, workspaceId, now, nOps,
                   autoSessionId, orphans, dashboard,
                   connectingWorkspace, connects, auth, rendered>>

NewChatOK(i) ==
    /\ i \in 1..Len(tasks)
    /\ tasks[i].call = "createSessionNewChat"
    /\ LET newId == CreatedSessionId(nCreated + 1)
       IN  /\ nCreated' = nCreated + 1
           /\ sessionId' = newId
           /\ messages' = AppendTurn(<< WelcomeMessage(now) >>,
                                   NewChatMessage(tasks[i].name, now))
           /\ tasks' = RemoveAt(tasks, i)
    /\ UNCHANGED <<isProcessing, sessionInfo, isRefreshing, workspaceId, now, nOps,
                   autoSessionId, orphans, dashboard,
                   connectingWorkspace, connects, auth, rendered>>

NewChatFail(i) ==
    /\ i \in 1..Len(tasks)
    /\ tasks[i].call = "createSessionNewChat"
    /\ tasks' = RemoveAt(tasks, i)
    /\ UNCHANGED <<messages, isProcessing, sessionId, sessionInfo, isRefreshing,
                   workspaceId, now, nOps, nCreated, autoSessionId, orphans,
                   dashboard, connectingWorkspace, connects, auth, rendered>>

(***************************************************************************)
(* handleRefreshConnection                                                 *)
(***************************************************************************)
Refresh ==
    /\ workspaceId # NoWorkspace
    /\ ~rendered.isRefreshing
    /\ nOps < MaxOps
    /\ nOps' = nOps + 1
    /\ LET t == Task("activateWorkspace", rendered.sessionId, "", "", "", 0)
       IN  Commit([Pending EXCEPT !.chat.isRefreshing = TRUE,
                                  !.chat.tasks = Append(tasks, t)])
    /\ UNCHANGED <<now, nCreated, auth>>

RefreshOK(i) ==
    /\ i \in 1..Len(tasks)
    /\ tasks[i].call = "activateWorkspace"
    /\ messages' = AppendTurn(messages, RefreshedMessage(now))
    /\ isRefreshing' = FALSE
    /\ tasks' = RemoveAt(tasks, i)
    /\ UNCHANGED <<isProcessing, sessionId, sessionInfo, workspaceId, now, nOps,
                   nCreated, autoSessionId, orphans, dashboard,
                   connectingWorkspace, connects, auth, rendered>>

RefreshFail(i) ==
    /\ i \in 1..Len(tasks)
    /\ tasks[i].call = "activateWorkspace"
    /\ messages' = AppendTurn(messages, RefreshFailedMessage(now))
    /\ isRefreshing' = FALSE
    /\ tasks' = RemoveAt(tasks, i)
    /\ UNCHANGED <<isProcessing, sessionId, sessionInfo, workspaceId, now, nOps,
                   nCreated, autoSessionId, orphans, dashboard,
                   connectingWorkspace, connects, auth, rendered>>

(***************************************************************************)
(* Specification                                                           *)
(***************************************************************************)
DoSubmit == \E input \in Utterances : Submit(input)
DoSendCreateOK == \E i \in 1..Len(tasks) : SendCreateOK(i)
DoSendCreateFail == \E i \in 1..Len(tasks) : SendCreateFail(i)
DoQueryOK ==
    \E i \in 1..Len(tasks) : \E result \in ResolverResults :
        \E rnds \in RandomDraws(result) : QueryOK(i, result, rnds)
DoQueryFail == \E i \in 1..Len(tasks) : QueryFail(i)
DoPageChange ==
    \E pt \in PageTargets : \E newPage \in Pages : PageChange(pt[1], pt[2], newPage)
DoPageOK ==
    \E i \in 1..Len(tasks) :
        \E result \in PageResults(tasks[i].tableId, tasks[i].page) : PageOK(i, result)
DoPageFail == \E i \in 1..Len(tasks) : PageFail(i)
DoSessionSelect == \E s \in PersistedSessions : SessionSelect(s)
DoLoadOK == \E i \in 1..Len(tasks) : \E rnd \in RandSuffixes : LoadOK(i, rnd)
DoLoadFail == \E i \in 1..Len(tasks) : LoadFail(i)
DoInfoOK == \E i \in 1..Len(tasks) : InfoOK(i)
DoInfoErrorObject == \E i \in 1..Len(tasks) : InfoErrorObject(i)
DoInfoThrow == \E i \in 1..Len(tasks) : InfoThrow(i)
DoNewChatOK == \E i \in 1..Len(tasks) : NewChatOK(i)
DoNewChatFail == \E i \in 1..Len(tasks) : NewChatFail(i)
DoRefreshOK == \E i \in 1..Len(tasks) : RefreshOK(i)
DoRefreshFail == \E i \in 1..Len(tasks) : RefreshFail(i)

\* the whole chat core
Next ==
    \/ Tick
    \/ DoSubmit \/ DoSendCreateOK \/ DoSendCreateFail \/ DoQueryOK \/ DoQueryFail
    \/ DoPageChange \/ DoPageOK \/ DoPageFail
    \/ DoSessionSelect \/ DoLoadOK \/ DoLoadFail
    \/ DoInfoOK \/ DoInfoErrorObject \/ DoInfoThrow
    \/ NewChat \/ DoNewChatOK \/ DoNewChatFail
    \/ Refresh \/ DoRefreshOK \/ DoRefreshFail
    \/ Render

Spec == Init /\ [][Next]_vars

\* submits only, with the session-info lookups they trigger, which resolve
\* or reject
NextSubmit ==
    \/ DoSubmit \/ DoSendCreateOK \/ DoSendCreateFail \/ DoQueryOK \/ DoQueryFail
    \/ DoInfoOK \/ DoInfoThrow
    \/ Render

SpecSubmit == Init /\ [][NextSubmit]_vars

\* the resolver's responses that carry a table
PagedResults == { r \in ResolverResults : r.table_id # "" \/ r.hasTables }

DoQueryOKPaged ==
    \E i \in 1..Len(tasks) : \E result \in PagedResults :
        \E rnds \in RandomDraws(result) : QueryOK(i, result, rnds)

\* submits answered with tables, and page changes on them, while
\* getSessionInfo resolves with the session's info
NextPageSubmit ==
    \/ DoSubmit \/ DoSendCreateOK \/ DoSendCreateFail \/ DoQueryOKPaged \/ DoQueryFail
    \/ DoPageChange \/ DoPageOK \/ DoPageFail
    \/ DoInfoOK
    \/ Render

SpecPageSubmit == Init /\ [][NextPageSubmit]_vars

\* session selection, and page changes on the loaded turns
NextSelect ==
    \/ DoPageChange \/ DoPageOK \/ DoPageFail
    \/ DoSessionSelect \/ DoLoadOK \/ DoLoadFail
    \/ DoInfoOK \/ DoInfoErrorObject \/ DoInfoThrow
    \/ Render

SpecSelect == Init /\ [][NextSelect]_vars

\* session selection and page changes on the loaded turns, while
\* getSessionInfo resolves with the session's info
NextSelectPage ==
    \/ DoPageChange \/ DoPageOK \/ DoPageFail
    \/ DoSessionSelect \/ DoLoadOK \/ DoLoadFail
    \/ DoInfoOK
    \/ Render

SpecSelectPage == Init /\ [][NextSelectPage]_vars

\* submits, page changes, session selection and new chat together, while
\* getSessionInfo resolves with the session's info
NextSwitch ==
    \/ DoSubmit \/ DoSendCreateOK \/ DoSendCreateFail \/ DoQueryOKPaged \/ DoQueryFail
    \/ DoPageChange \/ DoPageOK \/ DoPageFail
    \/ DoSessionSelect \/ DoLoadOK \/ DoLoadFail
    \/ DoInfoOK
    \/ NewChat \/ DoNewChatOK \/ DoNewChatFail
    \/ Render

SpecSwitch == Init /\ [][NextSwitch]_vars

\* the resolver's conversational response and its sql response with a table
BasicResults ==
    { r \in ResolverResults : r.query_type = "conversational" \/ r.table_id # "" }

DoQueryOKBasic ==
    \E i \in 1..Len(tasks) : \E result \in BasicResults :
        \E rnds \in RandomDraws(result) : QueryOK(i, result, rnds)

\* user operations the chat specification lets overlap
MaxChatOps == 2

\* the whole chat core without the clock: every handler (submit, page change,
\* session selection, new chat, refresh) and every outcome of every boundary
\* call
NextChat ==
    \/ /\ nOps < MaxChatOps
       /\ (DoSubmit \/ DoPageChange \/ DoSessionSelect \/ NewChat \/ Refresh)
    \/ DoSendCreateOK \/ DoSendCreateFail \/ DoQueryOK \/ DoQueryFail
    \/ DoPageOK \/ DoPageFail
    \/ DoLoadOK \/ DoLoadFail
    \/ DoInfoOK \/ DoInfoErrorObject \/ DoInfoThrow
    \/ DoNewChatOK \/ DoNewChatFail
    \/ DoRefreshOK \/ DoRefreshFail
    \/ Render

SpecChat == Init /\ [][NextChat]_vars

\* one response of the resolver per way its handling can end: a plain turn,
\* a turn with a table, and a response whose handling throws
SettlingResults == { r \in ResolverResults : r \in BasicResults \/ ResponseThrows(r) }

DoQueryOKSettling ==
    \E i \in 1..Len(tasks) : \E result \in SettlingResults :
        \E rnds \in RandomDraws(result) : QueryOK(i, result, rnds)

\* submits and page changes, while getSessionInfo resolves with the
\* session's info
NextSettling ==
    \/ DoSubmit \/ DoSendCreateOK \/ DoSendCreateFail \/ DoQueryOKSettling \/ DoQueryFail
    \/ DoPageChange \/ DoPageOK \/ DoPageFail
    \/ DoInfoOK
    \/ Render

\* every boundary call eventually settles, with one of its outcomes
CallsSettle ==
    /\ WF_vars(DoSendCreateOK \/ DoSendCreateFail)
    /\ WF_vars(DoQueryOKSettling \/ DoQueryFail)
    /\ WF_vars(DoPageOK \/ DoPageFail)
    /\ WF_vars(DoInfoOK)

SpecSettling == Init /\ [][NextSettling]_vars /\ CallsSettle

\* the resolver's sql responses that carry a pagination object
SqlPagedResults ==
    { r \in ResolverResults : r.query_type = "sql" /\ r.pagination.present }

DoQueryOKSql ==
    \E i \in 1..Len(tasks) : \E result \in SqlPagedResults :
        \E rnds \in RandomDraws(result) : QueryOK(i, result, rnds)

\* submits answered with a paginated sql table, page changes on them, and
\* the session-info lookups, which may clear the session id
NextPageGuard ==
    \/ DoSubmit \/ DoSendCreateOK \/ DoSendCreateFail \/ DoQueryOKSql \/ DoQueryFail
    \/ DoPageChange \/ DoPageOK \/ DoPageFail
    \/ DoInfoOK \/ DoInfoThrow
    \/ Render

SpecPageGuard == Init /\ [][NextPageGuard]_vars

DoQueryOKAny ==
    \E i \in 1..Len(tasks) : \E result \in ResolverResults \cup UnclassifiedResults :
        \E rnds \in RandomDraws(result) : QueryOK(i, result, rnds)

\* submits answered with every kind of response, while getSessionInfo
\* resolves with the session's info
NextClassify ==
    \/ DoSubmit \/ DoSendCreateOK \/ DoSendCreateFail \/ DoQueryOKAny \/ DoQueryFail
    \/ DoInfoOK
    \/ Render

SpecClassify == Init /\ [][NextClassify]_vars

\* a session whose first persisted turn has no created_at and whose second
\* has no _id
UndatedSessions == {"s3"}

DoSessionSelectUndated == \E s \in UndatedSessions : SessionSelect(s)

\* submits, session loads and refreshes while the millisecond clock runs
NextClock ==
    \/ Tick
    \/ DoSubmit \/ DoSendCreateOK \/ DoSendCreateFail \/ DoQueryOKBasic \/ DoQueryFail
    \/ DoSessionSelectUndated \/ DoLoadOK \/ DoLoadFail
    \/ DoInfoOK
    \/ Refresh \/ DoRefreshOK \/ DoRefreshFail
    \/ Render

SpecClock == Init /\ [][NextClock]_vars

DoConnectWorkspace == \E w \in ManagedWorkspaces : ConnectWorkspace(w)
DoActivateOK == \E i \in 1..Len(connects) : ActivateOK(i)
DoActivateFail == \E i \in 1..Len(connects) : ActivateFail(i)
DoListOK == \E i \in 1..Len(connects) : \E sessions \in SessionLists : ListOK(i, sessions)
DoListFail == \E i \in 1..Len(connects) : ListFail(i)

\* the dashboard: workspaces are connected, also while an earlier connect
\* is in flight, the chat resumes the session handed over and is used, and
\* the user goes back to the workspaces
NextDashboard ==
    \/ DoConnectWorkspace \/ DoActivateOK \/ DoActivateFail \/ DoListOK \/ DoListFail
    \/ BackToWorkspaces
    \/ DoLoadOK \/ DoLoadFail
    \/ DoInfoOK \/ DoInfoErrorObject \/ DoInfoThrow
    \/ DoSubmit \/ DoSendCreateOK \/ DoSendCreateFail \/ DoQueryOKBasic \/ DoQueryFail
    \/ \E i \in 1..Len(orphans.tasks) : \E ok \in BOOLEAN : OrphanSettles(i, ok)
    \/ Render

SpecDashboard == InitDashboard /\ [][NextDashboard]_vars

\* signing in and out around the dashboard, which renders its content only
\* when authenticated
NextLogin ==
    \/ Register \/ RegisterOK
    \/ \E detail \in ErrorDetails : RegisterFail(detail)
    \/ Login
    \/ \E token \in Tokens : LoginOK(token)
    \/ \E detail \in ErrorDetails : LoginFail(detail)
    \/ CurrentUserOK
    \/ \E detail \in ErrorDetails : CurrentUserFail(detail)
    \/ Logout
    \/ DoConnectWorkspace
    \/ DoActivateOK \/ DoActivateFail
    \/ DoListOK \/ DoListFail
    \/ BackToWorkspaces
    \/ DoLoadOK \/ DoLoadFail
    \/ DoInfoOK \/ DoInfoErrorObject \/ DoInfoThrow
    \/ \E i \in 1..Len(orphans.tasks) : \E ok \in BOOLEAN : OrphanSettles(i, ok)
    \/ \E i \in 1..Len(orphans.connects) : \E ok \in BOOLEAN : OrphanConnectSettles(i, ok)
    \/ Render

SpecLogin == InitLogin /\ [][NextLogin]_vars

\* new chats between submits
NextNewChat ==
    \/ NewChat \/ DoNewChatOK \/ DoNewChatFail
    \/ DoSubmit \/ DoSendCreateOK \/ DoQueryOKBasic
    \/ DoInfoOK
    \/ Render

SpecNewChat == Init /\ [][NextNewChat]_vars

\* workspaces are connected from the dashboard, also while an earlier
\* connect is in flight, the chat resumes the session handed over, and
\* sessions are selected from the list
NextAuto ==
    \/ DoConnectWorkspace \/ DoActivateOK \/ DoListOK \/ DoListFail
    \/ DoSessionSelect \/ DoLoadOK \/ DoLoadFail
    \/ DoInfoOK \/ DoInfoErrorObject \/ DoInfoThrow
    \/ Render

SpecAuto == InitDashboard /\ [][NextAuto]_vars

(***************************************************************************)
(* Properties.                                                             *)
(***************************************************************************)
TurnIndexes == 1..Len(messages)

\* no handleSendMessage invocation is suspended
NoSendPending ==
    \A i \in 1..Len(tasks) : tasks[i].call \notin {"createSession", "executeQuery"}

\* no getSessionMessages call is outstanding
NoLoadPending == \A i \in 1..Len(tasks) : tasks[i].call # "getSessionMessages"

IsFailureTurn(m) == HasPrefix(m.id, "error-") \/ HasPrefix(m.id, "session-error-")
IsResponseTurn(m) == ~m.isUser /\ HasPrefix(m.id, "response-")
IsCreatedNotice(m) == ~m.isUser /\ HasPrefix(m.text, "Created new session")

NoFailureTurns == \A k \in TurnIndexes : ~IsFailureTurn(messages[k])

Count(P(_)) == Cardinality({ k \in TurnIndexes : P(messages[k]) })

IsUserTurn(m) == m.isUser

\* C1 (as claimed): after N submits whose calls all succeeded, and none in
\* flight, the transcript holds exactly 1 + 2N turns.
C1_Original ==
    (NoSendPending /\ NoFailureTurns) => Len(messages) = 1 + 2 * nOps

\* C1 (amended): after N submits whose calls all succeeded, the transcript
\* holds the welcome turn, N user turns, N response turns and one
\* session-created notice per auto-created session: 1 + 2N + A turns, each
\* user turn followed by its response (after the notice, if any).
C1_SubmitTurnCount ==
    (NoSendPending /\ NoFailureTurns) =>
        /\ Len(messages) = 1 + 2 * nOps + nCreated
        /\ messages[1].id = "welcome"
        /\ Count(IsUserTurn) = nOps
        /\ Count(IsResponseTurn) = nOps
        /\ Count(IsCreatedNotice) = nCreated
        /\ \A k \in TurnIndexes : messages[k].isUser =>
              \/ k + 1 <= Len(messages) /\ IsResponseTurn(messages[k + 1])
              \/ /\ k + 2 <= Len(messages)
                 /\ IsCreatedNotice(messages[k + 1])
                 /\ IsResponseTurn(messages[k + 2])

\* two submits have completed, one of them after auto-creating a session
C1_Witness ==
    /\ NoSendPending /\ NoFailureTurns
    /\ nOps = 2 /\ nCreated = 1
    /\ Len(messages) = 6

\* C2: a sql response whose pagination object names table t yields one
\* assistant turn whose sql_result.table_id is t and whose pagination keeps
\* the returned total_pages.
C2_SqlTurnKeepsTableId ==
    [][\A i \in 1..Len(tasks) : \A result \in ResolverResults :
          \A rnds \in RandomDraws(result) :
             (QueryOK(i, result, rnds) /\ result.query_type = "sql"
                  /\ result.pagination.present)
             => /\ Len(messages') = Len(messages) + 1
                /\ ~messages'[Len(messages')].isUser
                /\ messages'[Len(messages')].sqlResult.present
                /\ messages'[Len(messages')].sqlResult.pagination.total_pages
                      = result.pagination.total_pages
                /\ messages'[Len(messages')].sqlResult.table_id
                      = result.pagination.table_id]_vars

\* C3: a successful page change on a turn holding a sql_result sets that
\* turn's pagination.current_page to the returned one and appends no turn.
C3_PageChangeUpdatesSameTurn ==
    [][\A i \in 1..Len(tasks) :
          \A result \in PageResults(tasks[i].tableId, tasks[i].page) :
             (PageOK(i, result) /\ result.pagination.present)
             => /\ Len(messages') = Len(messages)
                /\ \A k \in TurnIndexes :
                      (messages[k].id = tasks[i].messageId /\ messages[k].sqlResult.present)
                      => /\ messages'[k].id = messages[k].id
                         /\ messages'[k].sqlResult.present
                         /\ messages'[k].sqlResult.pagination.current_page
                               = result.pagination.current_page]_vars

\* a sql turn shows a page other than the first
C3_Witness ==
    \E k \in TurnIndexes :
        /\ messages[k].sqlResult.present
        /\ messages[k].sqlResult.pagination.present
        /\ messages[k].sqlResult.pagination.current_page = 2
        /\ messages[k].sqlResult.data = 102

\* C4: a successful page change on a turn holding an analysis_result leaves
\* the turn's tables with another table_id, and every other turn, unchanged.
C4_PageChangeFrame ==
    [][\A i \in 1..Len(tasks) :
          \A result \in PageResults(tasks[i].tableId, tasks[i].page) :
             PageOK(i, result)
             => /\ Len(messages') = Len(messages)
                /\ \A k \in TurnIndexes :
                      /\ messages[k].id # tasks[i].messageId => messages'[k] = messages[k]
                      /\ (messages[k].id = tasks[i].messageId
                             /\ messages[k].analysisResult.present)
                         => /\ Len(messages'[k].analysisResult.tables)
                                  = Len(messages[k].analysisResult.tables)
                            /\ \A j \in 1..Len(messages[k].analysisResult.tables) :
                                  messages[k].analysisResult.tables[j].table_id
                                      # tasks[i].tableId
                                  => messages'[k].analysisResult.tables[j]
                                        = messages[k].analysisResult.tables[j]]_vars

\* an analysis turn shows page 2 of one table next to page 1 of its sibling
C4_Witness ==
    \E k \in TurnIndexes :
        /\ messages[k].analysisResult.present
        /\ ~messages[k].sqlResult.present
        /\ \E j1, j2 \in 1..Len(messages[k].analysisResult.tables) :
              /\ messages[k].analysisResult.tables[j1].results = 102
              /\ messages[k].analysisResult.tables[j2].results \in {11, 21}

\* C5: after a successful page change the table it was requested for (the
\* turn's sql_result, or the table with that table_id in the turn's
\* analysis_result) holds the returned rows and pagination.
C5_PageChangeReachesItsTable ==
    [][\A i \in 1..Len(tasks) :
          \A result \in PageResults(tasks[i].tableId, tasks[i].page) :
             PageOK(i, result)
             => \A k \in TurnIndexes : messages[k].id = tasks[i].messageId =>
                   /\ (messages[k].query_type = "sql" /\ messages[k].sqlResult.present)
                      => /\ messages'[k].sqlResult.data = result.data
                         /\ messages'[k].sqlResult.pagination = result.pagination
                   /\ (messages[k].query_type = "analysis"
                          /\ messages[k].analysisResult.present)
                      => \A j \in 1..Len(messages[k].analysisResult.tables) :
                            messages[k].analysisResult.tables[j].table_id = tasks[i].tableId
                            => /\ messages'[k].analysisResult.tables[j].results = result.data
                               /\ messages'[k].analysisResult.tables[j].pagination
                                     = result.pagination]_vars

\* C6: a failed page change appends exactly one assistant turn naming the
\* page and the error, and changes nothing else of the transcript.
C6_PageFailureAppendsOneTurn ==
    [][\A i \in 1..Len(tasks) :
          PageFail(i)
          => /\ Len(messages') = Len(messages) + 1
             /\ SubSeq(messages', 1, Len(messages)) = messages
             /\ ~messages'[Len(messages')].isUser
             /\ ~messages'[Len(messages')].sqlResult.present
             /\ ~messages'[Len(messages')].analysisResult.present
             /\ HasPrefix(messages'[Len(messages')].text,
                          "Error loading page " \o ToString(tasks[i].page) \o ":")
             /\ messages'[Len(messages')].text
                   # "Error loading page " \o ToString(tasks[i].page) \o ": "]_vars

\* a pagination-error turn follows a turn whose table still shows its rows
C6_Witness ==
    \E k \in TurnIndexes : \E e \in TurnIndexes :
        /\ k < e
        /\ HasPrefix(messages[e].id, "pagination-error-")
        /\ \/ messages[k].sqlResult.present /\ messages[k].sqlResult.data = 11
           \/ /\ messages[k].analysisResult.present
              /\ messages[k].analysisResult.tables[1].results = 11

\* C7: the response of a submit or page change that was dispatched for
\* another session than the one now active leaves the transcript alone.
C7_StaleResponseDiscarded ==
    [][/\ \A i \in 1..Len(tasks) : \A result \in PagedResults :
             \A rnds \in RandomDraws(result) :
                (QueryOK(i, result, rnds) /\ sessionId # NoSession
                    /\ tasks[i].sid # sessionId)
                => messages' = messages
       /\ \A i \in 1..Len(tasks) :
             (QueryFail(i) /\ sessionId # NoSession /\ tasks[i].sid # sessionId)
             => messages' = messages
       /\ \A i \in 1..Len(tasks) :
             \A result \in PageResults(tasks[i].tableId, tasks[i].page) :
                (PageOK(i, result) /\ sessionId # NoSession /\ tasks[i].sid # sessionId)
                => messages' = messages
       /\ \A i \in 1..Len(tasks) :
             (PageFail(i) /\ sessionId # NoSession /\ tasks[i].sid # sessionId)
             => messages' = messages]_vars

\* the transcript a load of persisted session s installs
LoadedTranscriptOf(s) == LoadedTranscript(SessionMessages(s), now, "a")

\* C8: once no transcript load is pending, a transcript installed by a load
\* is the transcript of the active session, not of one selected before it.
C8_TranscriptOfActiveSession ==
    (/\ NoLoadPending
     /\ sessionId \in PersistedSessions
     /\ \E s \in PersistedSessions : messages = LoadedTranscriptOf(s))
    => messages = LoadedTranscriptOf(sessionId)

\* C9: when the transcript fetch of a selected session has failed and every
\* call has settled, the core is in the no-session state.
C9_FailedSelectionEndsWithoutSession ==
    (tasks = <<>> /\ Len(messages) >= 1 /\ messages[1].id = "error-loading")
    => sessionId = NoSession

\* C10 (as claimed): loading a session without persisted messages leaves
\* exactly one turn, the welcome turn.
C10_Original ==
    [][\A i \in 1..Len(tasks) : \A rnd \in RandSuffixes :
          (LoadOK(i, rnd) /\ SessionMessages(tasks[i].sel) = <<>>)
          => /\ Len(messages') = 1
             /\ messages'[1].id = "welcome"]_vars

\* C10 (amended): loading a session without persisted messages leaves
\* exactly two turns, the welcome turn and one session-loaded notice.
C10_EmptySessionShowsWelcome ==
    [][\A i \in 1..Len(tasks) : \A rnd \in RandSuffixes :
          (LoadOK(i, rnd) /\ SessionMessages(tasks[i].sel) = <<>>)
          => /\ Len(messages') = 2
             /\ messages'[1].id = "welcome"
             /\ messages'[1].text = WelcomeText
             /\ ~messages'[1].isUser
             /\ ~messages'[2].isUser
             /\ HasPrefix(messages'[2].id, "system-")
             /\ messages'[2].text = "Session loaded (no previous messages)"]_vars

\* a session without persisted messages has been loaded
C10_Witness ==
    /\ Len(messages) = 2
    /\ messages[1].id = "welcome"
    /\ messages[2].text = "Session loaded (no previous messages)"
    /\ sessionId = "s2"

\* C11: in every reachable state the transcript holds at least one turn.
C11_TranscriptNeverEmpty == Len(messages) >= 1

\* a selection has replaced the transcript by the turns of a session that
\* has none: it shows the welcome turn, and the selection has settled
C11_Witness ==
    /\ sessionId = "s2"
    /\ NoLoadPending
    /\ Len(messages) >= 1
    /\ messages[1].id = "welcome"
    /\ \E k \in TurnIndexes : messages[k].text = "Session loaded (no previous messages)"
    /\ nOps >= 2

\* the text holds nothing but blanks
IsBlank(s) == \A k \in 1..Len(s) : SubSeq(s, k, k) = " "

\* C12: a submit whose utterance is empty after trimming starts no call and
\* leaves the transcript, the session id and the processing flag unchanged.
C12_BlankSubmitIsNoOp ==
    [][\A input \in Utterances :
          (IsBlank(input) /\ Submit(input))
          => /\ tasks' = tasks
             /\ messages' = messages
             /\ sessionId' = sessionId
             /\ isProcessing' = isProcessing]_vars

\* the input control is enabled again after a submit was answered, so a
\* blank utterance can be submitted, and no user turn holds a blank text
C12_Witness ==
    /\ ~isProcessing
    /\ tasks = <<>>
    /\ sessionId # NoSession
    /\ Count(IsResponseTurn) >= 1
    /\ \E input \in Utterances : IsBlank(input) /\ input # ""
    /\ \A k \in TurnIndexes : messages[k].isUser => ~IsBlank(messages[k].text)

\* C13: when the session creation of a submit fails, the resolver is not
\* called for that utterance, exactly one assistant turn reporting the
\* failure is appended, the session id stays absent and processing ends.
C13_CreateFailureAborts ==
    [][\A i \in 1..Len(tasks) :
          SendCreateFail(i)
          => /\ Len(messages') = Len(messages) + 1
             /\ SubSeq(messages', 1, Len(messages)) = messages
             /\ ~messages'[Len(messages')].isUser
             /\ HasPrefix(messages'[Len(messages')].id, "error-")
             /\ HasPrefix(messages'[Len(messages')].text, "Failed to create session")
             /\ Len(tasks') = Len(tasks) - 1
             /\ \A j \in 1..Len(tasks') : tasks'[j].call # "executeQuery"
             /\ sessionId = NoSession
             /\ sessionId' = NoSession
             /\ isProcessing' = FALSE]_vars

\* a submit ended with the creation-failure turn right after its user turn
C13_Witness ==
    /\ Len(messages) >= 2
    /\ messages[Len(messages)].text
          = "Failed to create session. Please try connecting to the workspace again."
    /\ messages[Len(messages) - 1].isUser
    /\ sessionId = NoSession
    /\ ~isProcessing
    /\ tasks = <<>>

\* C14: when the resolver call of a submit fails, exactly one assistant turn
\* reporting the error is appended, the call is not issued again, and
\* processing is reset to false.
C14_QueryFailureAppendsOneTurn ==
    [][\A i \in 1..Len(tasks) :
          QueryFail(i)
          => /\ Len(messages') = Len(messages) + 1
             /\ SubSeq(messages', 1, Len(messages)) = messages
             /\ ~messages'[Len(messages')].isUser
             /\ HasPrefix(messages'[Len(messages')].id, "error-")
             /\ HasPrefix(messages'[Len(messages')].text, "Error: ")
             /\ messages'[Len(messages')].text # "Error: "
             /\ tasks' = RemoveAt(tasks, i)
             /\ Cardinality({ j \in 1..Len(tasks') : tasks'[j].call = "executeQuery" })
                   = Cardinality({ j \in 1..Len(tasks) : tasks[j].call = "executeQuery" }) - 1
             /\ isProcessing' = FALSE]_vars

\* a submit ended with the resolver's error right after its user turn, in
\* the session that was created for it
C14_Witness ==
    /\ Len(messages) >= 3
    /\ messages[Len(messages)].text = "Error: Network Error"
    /\ IsCreatedNotice(messages[Len(messages) - 1])
    /\ messages[Len(messages) - 2].isUser
    /\ sessionId # NoSession
    /\ ~isProcessing
    /\ NoSendPending

\* a resolver call or a pagination call is outstanding
QueryOrPagePending ==
    \E i \in 1..Len(tasks) : tasks[i].call \in {"executeQuery", "getPaginatedResults"}

\* C15: whenever a resolver call or a pagination call is outstanding, the
\* shared processing flag is true.
C15_ProcessingWhileCallOutstanding == QueryOrPagePending => isProcessing

\* C17: at no time are two resolver calls, or two pagination calls,
\* outstanding together.
C17_OneCallPerKind ==
    \A i, j \in 1..Len(tasks) :
        (i # j /\ tasks[i].call = tasks[j].call)
        => tasks[i].call \notin {"executeQuery", "getPaginatedResults"}

\* C16: every boundary call settling, the processing flag set by a submit or
\* a page change eventually returns to false, whatever the outcome.
C16_ProcessingEventuallyEnds == isProcessing ~> ~isProcessing

\* a submit and a page change have both settled, one of them with a failure,
\* and the flag is false again
C16_Witness ==
    /\ ~isProcessing
    /\ ~QueryOrPagePending
    /\ NoSendPending
    /\ Count(IsResponseTurn) >= 1
    /\ \E k \in TurnIndexes : HasPrefix(messages[k].id, "pagination-error-")
    /\ nOps >= 2

\* C18: a page change requested when the component holds no active session
\* id (the sessionId of the render whose control is used) or with an empty
\* table id starts no call and leaves the transcript and the processing flag
\* unchanged.
C18_GuardedPageChangeIsNoOp ==
    [][\A pt \in PageTargets : \A newPage \in Pages :
          (PageChange(pt[1], pt[2], newPage)
              /\ (rendered.sessionId = NoSession \/ pt[2] = ""))
          => /\ tasks' = tasks
             /\ messages' = messages
             /\ isProcessing' = isProcessing]_vars

\* with a session active, a rendered table passes an empty table id to
\* handlePageChange, and no call is outstanding
C18_Witness ==
    /\ sessionId # NoSession
    /\ \E pt \in PageTargets : pt[2] = ""
    /\ ~QueryOrPagePending
    /\ ~isProcessing

\* C19: a page change that returns the same data for the same request a
\* second time leaves the transcript as the first left it, and a page
\* change appends no turn.
C19_PageChangeIdempotent ==
    [][\A i \in 1..Len(tasks) :
          \A result \in PageResults(tasks[i].tableId, tasks[i].page) :
             PageOK(i, result)
             => /\ Len(messages') = Len(messages)
                /\ UpdateTurnResult(messages', tasks[i].messageId, tasks[i].tableId, result)
                      = messages']_vars

\* the page of a table of an analysis turn was requested twice: the first
\* request has been applied under the same table id, the second is pending
C19_Witness ==
    \E i \in 1..Len(tasks) :
        /\ tasks[i].call = "getPaginatedResults"
        /\ \E k \in TurnIndexes :
              /\ messages[k].id = tasks[i].messageId
              /\ messages[k].analysisResult.present
              /\ ~messages[k].sqlResult.present
              /\ \E j \in 1..Len(messages[k].analysisResult.tables) :
                    /\ messages[k].analysisResult.tables[j].table_id = tasks[i].tableId
                    /\ messages[k].analysisResult.tables[j].results = 100 + tasks[i].page
                    /\ messages[k].analysisResult.tables[j].pagination.current_page
                          = tasks[i].page

\* the tables of the analysis turns: <<turn index, table index>>
ShownTables ==
    UNION { { <<k, j>> : j \in 1..Len(messages[k].analysisResult.tables) } :
            k \in { n \in TurnIndexes : messages[n].analysisResult.present } }

TableIdAt(kj) == messages[kj[1]].analysisResult.tables[kj[2]].table_id

\* C20: the table ids synthesized for the tables of an analysis response
\* that lack one are distinct from one another and from the table id of
\* every other table in the transcript.
C20_SynthesizedIdsDistinct ==
    \A a \in ShownTables : \A b \in ShownTables :
        (a # b /\ HasPrefix(TableIdAt(a), "table-")) => TableIdAt(a) # TableIdAt(b)

\* the turn was appended by handleSendMessage for a resolver response
IsSubmitResponse(m) == HasPrefix(m.id, "response-")

\* C21: every table of every analysis turn appended by a submit has a
\* non-empty table_id, supplied by the resolver or synthesized locally.
C21_AnalysisTablesHaveIds ==
    \A k \in TurnIndexes :
        (IsSubmitResponse(messages[k]) /\ messages[k].analysisResult.present)
        => \A j \in 1..Len(messages[k].analysisResult.tables) :
              messages[k].analysisResult.tables[j].table_id # ""

\* an analysis turn shows a table under a synthesized id
C21_Witness ==
    \E k \in TurnIndexes :
        /\ IsSubmitResponse(messages[k])
        /\ messages[k].analysisResult.present
        /\ Len(messages[k].analysisResult.tables) = 2
        /\ HasPrefix(messages[k].analysisResult.tables[1].table_id, "table-")
        /\ HasPrefix(messages[k].analysisResult.tables[2].table_id, "table-")

\* the response's query_type is none of the three the handler knows
IsUnclassified(result) == result.query_type \notin {"conversational", "sql", "analysis"}

\* C23: a response whose query_type is missing or unknown yields one
\* assistant turn carrying the response text, else the fallback text, and
\* neither a sql_result nor an analysis_result.
C23_UnclassifiedIsTextOnly ==
    [][\A i \in 1..Len(tasks) : \A result \in ResolverResults \cup UnclassifiedResults :
          \A rnds \in RandomDraws(result) :
             (QueryOK(i, result, rnds) /\ IsUnclassified(result))
             => /\ Len(messages') = Len(messages) + 1
                /\ SubSeq(messages', 1, Len(messages)) = messages
                /\ ~messages'[Len(messages')].isUser
                /\ messages'[Len(messages')].text
                      = (IF result.text # "" THEN result.text
                         ELSE IF result.message # "" THEN result.message
                         ELSE "Query executed successfully.")
                /\ ~messages'[Len(messages')].sqlResult.present
                /\ ~messages'[Len(messages')].analysisResult.present]_vars

\* a response of an unknown kind that carried sql and tables is shown as text
C23_Witness ==
    /\ Len(messages) >= 3
    /\ messages[Len(messages)].query_type = "chart"
    /\ messages[Len(messages)].text = "Chart ready"
    /\ ~messages[Len(messages)].sqlResult.present
    /\ \E k \in TurnIndexes : messages[k].text = "Done" /\ messages[k].query_type = ""

\* C24: a sql response whose error field is set yields exactly one assistant
\* turn, whose sql_result carries that error; no separate error turn.
C24_SqlErrorShownInline ==
    [][\A i \in 1..Len(tasks) : \A result \in ResolverResults \cup UnclassifiedResults :
          \A rnds \in RandomDraws(result) :
             (QueryOK(i, result, rnds) /\ result.query_type = "sql" /\ result.error # "")
             => /\ Len(messages') = Len(messages) + 1
                /\ SubSeq(messages', 1, Len(messages)) = messages
                /\ ~messages'[Len(messages')].isUser
                /\ IsSubmitResponse(messages'[Len(messages')])
                /\ ~IsFailureTurn(messages'[Len(messages')])
                /\ messages'[Len(messages')].sqlResult.present
                /\ messages'[Len(messages')].sqlResult.error = result.error]_vars

\* the last turn is a sql turn showing the resolver's error
C24_Witness ==
    /\ Len(messages) >= 2
    /\ messages[Len(messages)].query_type = "sql"
    /\ messages[Len(messages)].sqlResult.present
    /\ messages[Len(messages)].sqlResult.error = "no such column"
    /\ messages[Len(messages) - 1].isUser
    /\ NoFailureTurns

\* C22: a successful page change leaves the table it was requested for (the
\* turn's sql_result, or the tables with that table_id in the turn's
\* analysis_result) under the id of the response's pagination, else under
\* the caller's id.
C22_PageChangeAdoptsReturnedId ==
    [][\A i \in 1..Len(tasks) :
          \A result \in PageResults(tasks[i].tableId, tasks[i].page) :
             PageOK(i, result)
             => \A k \in TurnIndexes : messages[k].id = tasks[i].messageId =>
                   /\ (messages[k].query_type = "sql" /\ messages[k].sqlResult.present)
                      => messages'[k].sqlResult.table_id
                            = CurrentTableId(result, tasks[i].tableId)
                   /\ (messages[k].query_type = "analysis"
                          /\ messages[k].analysisResult.present)
                      => \A j \in 1..Len(messages[k].analysisResult.tables) :
                            messages[k].analysisResult.tables[j].table_id = tasks[i].tableId
                            => messages'[k].analysisResult.tables[j].table_id
                                  = CurrentTableId(result, tasks[i].tableId)]_vars

\* C25: no turn of the transcript has both a sql_result and an
\* analysis_result.
C25_AtMostOneResult ==
    \A k \in TurnIndexes :
        ~(messages[k].sqlResult.present /\ messages[k].analysisResult.present)

\* C26: an assistant turn has a sql_result exactly when its kind is sql and
\* an analysis_result exactly when its kind is analysis.
C26_ResultMatchesKind ==
    \A k \in TurnIndexes :
        ~messages[k].isUser
        => /\ messages[k].sqlResult.present <=> (messages[k].query_type = "sql")
           /\ messages[k].analysisResult.present <=> (messages[k].query_type = "analysis")

\* the turn reports a failed call
IsProblemTurn(m) ==
    ~m.isUser /\ (IsFailureTurn(m) \/ HasPrefix(m.id, "pagination-error-"))

\* a boundary call of the chat core fails
BoundaryCallFails ==
    \E i \in 1..Len(tasks) :
        \/ SendCreateFail(i) \/ QueryFail(i) \/ PageFail(i) \/ LoadFail(i)
        \/ InfoThrow(i) \/ NewChatFail(i) \/ RefreshFail(i)

\* C27: every failure of a boundary call puts a new entry reporting it in
\* the transcript (appended, or installed as the sole turn by a failed load).
C27_EveryFailureIsShown ==
    [][BoundaryCallFails
       => /\ IsProblemTurn(messages'[Len(messages')])
          /\ \/ /\ Len(messages') = Len(messages) + 1
                /\ SubSeq(messages', 1, Len(messages)) = messages
             \/ messages' = << LoadFailedMessage(now) >>]_vars

\* C28: the ids of the turns of the transcript are pairwise distinct.
C28_TurnIdsDistinct ==
    \A k1, k2 \in TurnIndexes : k1 # k2 => messages[k1].id # messages[k2].id

\* C29: the timestamps of the turns are non-decreasing in transcript order.
C29_TimestampsMonotone ==
    \A k \in TurnIndexes :
        k > 1 => messages[k - 1].timestamp <= messages[k].timestamp

\* the step commits a render of the chat whose [autoSessionId] effect runs
\* (the mount, or a changed prop) and finds a session id that differs from
\* the active one
AutoResumes ==
    /\ ~rendered'.showWorkspaceManager
    /\ rendered.showWorkspaceManager \/ autoSessionId' # autoSessionId
    /\ autoSessionId' # NoSession
    /\ autoSessionId' # rendered'.sessionId

\* what starting the selection of s does, `active` being the session id
\* rendered when it starts: s becomes the active session id, the transcript
\* is the loading placeholder, the load of s is started, and nothing else of
\* the chat state changes
SelectionStarted(s, active) ==
    /\ sessionId' = s
    /\ messages' = << LoadingMessage(now) >>
    /\ \E k \in (Len(tasks) + 1)..Len(tasks') :
          tasks'[k] = Task("getSessionMessages", active, s, "", "", 0)
    /\ UNCHANGED <<isProcessing, sessionInfo, isRefreshing>>

\* the transcripts a selection of s ends with: the persisted turns of s or
\* the load failure, followed by the session error if the lookup reported one
SelectionTranscripts(s) ==
    LET loaded == { LoadedTranscriptOf(s), << LoadFailedMessage(now) >> }
    IN  loaded \cup { AppendTurn(m, SessionErrorMessage("Session not found", now)) :
                        m \in loaded }

\* everything started has settled and is rendered, and the chat is shown
ChatSettled ==
    /\ ~rendered.showWorkspaceManager
    /\ rendered = View
    /\ tasks = <<>>
    /\ connects = <<>>

\* C30: a render of the chat whose effect finds an autoSessionId that differs
\* from the active session id (at the mount, or when a later connect changes
\* the prop while a session is active) starts the selection of that id
\* exactly as a selection from the session list does: the same active session
\* id, the same transcript, the same load; and once everything has settled,
\* an auto-resume alone (one connect) and the one selection or resumption
\* made with a second operation leave the same outcomes: the session active
\* (or cleared by a rejected lookup) and its persisted turns or the load
\* failure shown.
C30_AutoResumeActsAsSelection ==
    /\ [][/\ AutoResumes => SelectionStarted(autoSessionId', rendered'.sessionId)
          /\ \A s \in PersistedSessions :
                (SessionSelect(s) /\ ~AutoResumes)
                    => SelectionStarted(s, rendered.sessionId)]_vars
    /\ [](/\ (ChatSettled /\ nOps = 1 /\ autoSessionId # NoSession)
              => /\ sessionId \in {autoSessionId, NoSession}
                 /\ messages \in SelectionTranscripts(autoSessionId)
          /\ (ChatSettled /\ nOps = 2 /\ autoSessionId = NoSession
                /\ messages # << WelcomeMessage(now) >>)
              => \E s \in PersistedSessions :
                    /\ sessionId \in {s, NoSession}
                    /\ messages \in SelectionTranscripts(s))

\* a second connect handed over s2 while s1, resumed at the first, was
\* active: s2 is active with its persisted turns, and the lookup made after
\* the load was that of the session active before (s1)
C30_Witness ==
    /\ ChatSettled
    /\ nOps = 2
    /\ autoSessionId = "s2"
    /\ sessionId = "s2"
    /\ sessionInfo.present /\ sessionInfo.sid = "s1"
    /\ messages = LoadedTranscriptOf("s2")

\* C31: while the transcript of a selected session is still being fetched,
\* no session-info lookup for that session id is in flight, and none has
\* been applied: the metadata is fetched only after the fetched transcript
\* is in place.
C31_InfoFetchedAfterTranscript ==
    \A i \in 1..Len(tasks) :
        tasks[i].call = "getSessionMessages"
        => /\ \A j \in 1..Len(tasks) :
                 ~(tasks[j].call = "getSessionInfo" /\ tasks[j].sid = tasks[i].sel)
           /\ ~(sessionInfo.present /\ sessionInfo.sid = tasks[i].sel)

\* C32: a submit starts a session creation exactly when the component holds
\* no active session id (the sessionId of its last render) and a workspace is
\* connected, and then calls nothing else (the render that follows may look
\* up a session id set since); when the creation resolves, the new session's
\* id becomes the active one and the resolver is called with it.
C32_AutoProvisioning ==
    [][/\ \A input \in Utterances :
             (Submit(input) /\ nOps' # nOps)
             => /\ Len(tasks') \in {Len(tasks) + 1, Len(tasks) + 2}
                /\ Len(tasks') = Len(tasks) + 2
                      => tasks'[Len(tasks')].call = "getSessionInfo"
                /\ (tasks'[Len(tasks) + 1].call = "createSession")
                      <=> (rendered.sessionId = NoSession /\ workspaceId # NoWorkspace)
                /\ tasks'[Len(tasks) + 1].call \in {"createSession", "executeQuery"}
                /\ tasks'[Len(tasks) + 1].call = "executeQuery"
                      => tasks'[Len(tasks) + 1].sid = rendered.sessionId
                /\ nCreated' = nCreated /\ sessionId' = sessionId
       /\ \A i \in 1..Len(tasks) :
             SendCreateOK(i)
             => /\ nCreated' = nCreated + 1
                /\ sessionId' = CreatedSessionId(nCreated')
                /\ tasks'[i].call = "executeQuery"
                /\ tasks'[i].sid = CreatedSessionId(nCreated')]_vars

\* the resolver is being called with the id of the session the submit
\* created, which is the active one
C32_Witness ==
    /\ nCreated = 1
    /\ sessionId = CreatedSessionId(1)
    /\ \E i \in 1..Len(tasks) :
          tasks[i].call = "executeQuery" /\ tasks[i].sid = CreatedSessionId(1)

\* the chat after session s1 was selected and its lookups settled;
\* operations are counted from this state
InitPaged ==
    /\ messages = LoadedTranscript(SessionMessages("s1"), 0, "a")
    /\ isProcessing = FALSE
    /\ sessionId = "s1"
    /\ sessionInfo = [present |-> TRUE, sid |-> "s1", error |-> FALSE]
    /\ isRefreshing = FALSE
    /\ workspaceId \in Workspaces
    /\ now = 0
    /\ tasks = <<>>
    /\ nOps = 0
    /\ nCreated = 0
    /\ autoSessionId = NoSession
    /\ orphans = [tasks |-> <<>>, connects |-> <<>>]
    /\ dashboard = DashboardState(workspaceId, autoSessionId, FALSE)
    /\ connectingWorkspace = NoWorkspace
    /\ connects = <<>>
    /\ auth = SignedIn
    /\ rendered = View

\* submits and page changes on the tables of a loaded session
NextOverlap ==
    \/ DoSubmit \/ DoQueryOKBasic \/ DoQueryFail
    \/ DoPageChange \/ DoPageOK \/ DoPageFail
    \/ Render

SpecOverlap == InitPaged /\ [][NextOverlap]_vars

\* the executeQuery calls in flight
PendingQueries == { i \in 1..Len(tasks) : tasks[i].call = "executeQuery" }

\* C33: when the resolver call of one of two submits in flight settles, its
\* assistant turn is appended after every turn already in the transcript,
\* whichever of the two submits was issued first.
C33_TurnsInCompletionOrder ==
    [][\A i \in 1..Len(tasks) : \A result \in BasicResults :
          \A rnds \in RandomDraws(result) :
             (QueryOK(i, result, rnds) /\ Cardinality(PendingQueries) >= 2)
             => /\ Len(messages') = Len(messages) + 1
                /\ SubSeq(messages', 1, Len(messages)) = messages
                /\ messages'[Len(messages')] = ResponseTurn(result, now, rnds)]_vars

\* two submits were in flight together; one has been answered, after both
\* user turns, and the other is still waiting
C33_Witness ==
    /\ Cardinality(PendingQueries) = 1
    /\ Len(messages) >= 3
    /\ IsResponseTurn(messages[Len(messages)])
    /\ messages[Len(messages) - 1].isUser
    /\ messages[Len(messages) - 2].isUser

\* the turn is a user turn appended by handleSendMessage (its id is the
\* clock reading, where loaded user turns carry the server's id)
IsSubmittedUserTurn(m) == m.isUser /\ \E t \in 0..MaxClock : m.id = ToString(t)

\* C34: the settlement of a session load removes no user turn appended by a
\* submit: every such turn in the transcript was appended after that
\* selection started, and stays until a later selection or new chat.
C34_LoadKeepsSubmittedTurns ==
    [][(\E i \in 1..Len(tasks) : LoadFail(i) \/ \E rnd \in RandSuffixes : LoadOK(i, rnd))
       => \A k \in TurnIndexes :
             IsSubmittedUserTurn(messages[k])
             => \E k2 \in 1..Len(messages') : messages'[k2] = messages[k]]_vars

\* C35: an analysis response without a tables sequence yields exactly one
\* assistant turn, an error report; no turn with an analysis_result is
\* created for it, and processing returns to false.
C35_AnalysisWithoutTables ==
    [][\A i \in 1..Len(tasks) : \A result \in ResolverResults \cup UnclassifiedResults :
          \A rnds \in RandomDraws(result) :
             (QueryOK(i, result, rnds) /\ result.query_type = "analysis"
                 /\ ~result.hasTables)
             => /\ Len(messages') = Len(messages) + 1
                /\ SubSeq(messages', 1, Len(messages)) = messages
                /\ IsProblemTurn(messages'[Len(messages')])
                /\ messages'[Len(messages')].query_type = ""
                /\ ~messages'[Len(messages')].analysisResult.present
                /\ ~messages'[Len(messages')].sqlResult.present
                /\ isProcessing' = FALSE]_vars

\* the submit was answered by the report of the failed tables.map, and the
\* input is enabled again
C35_Witness ==
    /\ Len(messages) >= 2
    /\ messages[Len(messages)].id = "error-" \o ToString(now)
    /\ messages[Len(messages)].text
          = "Error: Cannot read properties of undefined (reading 'map')"
    /\ messages[Len(messages) - 1].isUser
    /\ ~isProcessing
    /\ tasks = <<>>

\* C36: calling new chat changes neither the session id nor the transcript
\* (and calls nothing without a workspace); when the creation resolves, the
\* new session's id becomes the active one and the transcript becomes the
\* welcome turn followed by one session-started notice; when it rejects,
\* the session id and the transcript stay as they are.
C36_NewChatFrame ==
    [][/\ NewChat
          => /\ UNCHANGED <<sessionId, messages>>
             /\ workspaceId = NoWorkspace => UNCHANGED tasks
       /\ \A i \in 1..Len(tasks) :
             /\ NewChatOK(i)
                => /\ sessionId' = CreatedSessionId(nCreated + 1)
                   /\ Len(messages') = 2
                   /\ messages'[1] = WelcomeMessage(now)
                   /\ messages'[2].id = "system-" \o ToString(now)
                   /\ HasPrefix(messages'[2].text, "Started new chat session")
                   /\ ~messages'[2].isUser
             /\ NewChatFail(i) => UNCHANGED <<sessionId, messages>>]_vars

\* after a new chat that followed another operation the created session is active
\* and only the welcome turn and the notice are shown
C36_Witness ==
    /\ nOps >= 2
    /\ nCreated >= 1
    /\ sessionId = CreatedSessionId(nCreated)
    /\ Len(messages) = 2
    /\ messages[1].id = "welcome"
    /\ HasPrefix(messages[2].text, "Started new chat session")

\* the workspaces whose sessions are being listed, which happens only once
\* their activation has succeeded
ListedWorkspaces(cs) ==
    { cs[j].workspaceId : j \in { k \in 1..Len(cs) : cs[k].call = "listWorkspaceSessions" } }

\* C37: the sessions of a workspace are listed only after its activation
\* resolved; the Dashboard state turns to the chat for a workspace only in a
\* step that settles such a listing, and what is shown switches from the
\* manager to the chat only afterwards, for the workspace of that state; a
\* failed activation connects nothing and leaves manager or chat as shown;
\* every settled attempt clears the connecting indicator of the manager that
\* started it.
C37_ConnectAfterActivation ==
    [][/\ ListedWorkspaces(connects') \subseteq
             ListedWorkspaces(connects)
                \cup { connects[i].workspaceId :
                          i \in { k \in 1..Len(connects) : ActivateOK(k) } }
       /\ (dashboard' # dashboard /\ ~dashboard'.showWorkspaceManager)
          => dashboard'.connectedWorkspace \in ListedWorkspaces(connects)
       /\ (rendered.showWorkspaceManager /\ ~rendered'.showWorkspaceManager)
          => /\ ~dashboard.showWorkspaceManager
             /\ dashboard' = dashboard
             /\ workspaceId' = dashboard.connectedWorkspace
       /\ \A i \in 1..Len(connects) :
             /\ ActivateFail(i)
                => /\ UNCHANGED <<workspaceId, autoSessionId, dashboard>>
                   /\ rendered'.showWorkspaceManager = rendered.showWorkspaceManager
             /\ ActivateOK(i) => UNCHANGED <<workspaceId, dashboard, rendered>>
             /\ (ActivateFail(i) \/ ListFail(i)
                   \/ \E sessions \in SessionLists : ListOK(i, sessions))
                => connectingWorkspace'
                     = IF connects[i].live THEN NoWorkspace ELSE connectingWorkspace]_vars

\* two attempts have settled, the indicator is cleared and the chat is shown
\* for the second workspace
C37_Witness ==
    /\ ~rendered.showWorkspaceManager
    /\ rendered = View
    /\ workspaceId = "w2"
    /\ connectingWorkspace = NoWorkspace
    /\ connects = <<>>
    /\ nOps = 2

\* C38: when the listing of a workspace's sessions settles, the Dashboard
\* state connects the workspace; the session id it holds for the chat is
\* that of a listed session with the greatest updated_at, and none when the
\* list is empty or the listing failed; every render of the chat hands that
\* workspace and session id over as its props.
C38_MostRecentSessionResumed ==
    [][/\ \A i \in 1..Len(connects) :
             /\ \A sessions \in SessionLists :
                   ListOK(i, sessions)
                   => /\ dashboard'.connectedWorkspace = connects[i].workspaceId
                      /\ ~dashboard'.showWorkspaceManager
                      /\ IF Len(sessions) = 0
                         THEN dashboard'.autoSessionId = NoSession
                         ELSE \E k \in 1..Len(sessions) :
                                 /\ sessions[k]._id = dashboard'.autoSessionId
                                 /\ \A j \in 1..Len(sessions) :
                                       sessions[j].updated_at <= sessions[k].updated_at
             /\ ListFail(i)
                => /\ dashboard'.connectedWorkspace = connects[i].workspaceId
                   /\ ~dashboard'.showWorkspaceManager
                   /\ dashboard'.autoSessionId = NoSession
       /\ (~rendered'.showWorkspaceManager
             /\ <<rendered', workspaceId', autoSessionId'>>
                  # <<rendered, workspaceId, autoSessionId>>)
          => /\ workspaceId' = dashboard'.connectedWorkspace
             /\ autoSessionId' = dashboard'.autoSessionId]_vars

\* the chat of a connected workspace was handed the most recent session and
\* has resumed it
C38_Witness ==
    /\ ~rendered.showWorkspaceManager
    /\ nOps = 1
    /\ workspaceId \in ManagedWorkspaces
    /\ autoSessionId = "s1"
    /\ dashboard.autoSessionId = "s1"
    /\ sessionId = "s1"
    /\ tasks = <<>>
    /\ messages = LoadedTranscriptOf("s1")

\* C39: when a login has failed (no user, an error message, not loading,
\* nothing in flight), no auth token is in storage.
C39_FailedLoginLeavesNoToken ==
    (auth.user = "" /\ auth.error # "" /\ ~auth.loading /\ auth.call = "")
    => auth.token = ""

====
